---- MODULE Spec2Model ----
(***************************************************************************)
(* A model of onlyargs / onlyargs_derive: the derive macro that turns a    *)
(* struct declaration into an argument schema (parser.rs, lib.rs) and the  *)
(* token-by-token parser it generates (lib.rs, the `parse` template),      *)
(* with the runtime conversions of onlyargs::traits.                       *)
(*                                                                         *)
(* Text is modelled as a sequence of one-character strings, so that the    *)
(* name derivations (to_arg_name, short-name inference) are computed       *)
(* character by character as the code does.  An OsString is a sequence of  *)
(* units; the unit BadByte stands for a byte that is not valid UTF-8.      *)
(* Type spellings are plain strings: the code only compares them whole.    *)
(***************************************************************************)
EXTENDS Integers, Sequences, FiniteSets, TLC

\* ------------------------------------------------------------------ text

\* Option<T>: None is the empty sequence, Some(x) a sequence of length one.
None == <<>>

Some(x) == <<x>>

is_some(o) == Len(o) > 0

unwrap(o) == o[1]

UpperChars == <<"A", "B", "C", "D", "E", "F", "G", "H", "I", "J", "K", "L", "M",
                "N", "O", "P", "Q", "R", "S", "T", "U", "V", "W", "X", "Y", "Z">>

LowerChars == <<"a", "b", "c", "d", "e", "f", "g", "h", "i", "j", "k", "l", "m",
                "n", "o", "p", "q", "r", "s", "t", "u", "v", "w", "x", "y", "z">>

Range(s) == {s[i] : i \in DOMAIN s}

\* char::is_ascii_alphabetic
is_ascii_alphabetic(ch) == ch \in Range(UpperChars) \cup Range(LowerChars)

\* u8::make_ascii_lowercase on one character
to_ascii_lowercase(ch) ==
    IF ch \in Range(UpperChars)
    THEN LowerChars[CHOOSE i \in DOMAIN UpperChars : UpperChars[i] = ch]
    ELSE ch

\* A unit of an OsString that is not valid UTF-8.
BadByte == "\\xFF"

\* OsStr::to_str / OsString::into_string: None unless every unit is valid.
to_str(os) == IF BadByte \in Range(os) THEN None ELSE Some(os)

\* ------------------------------------------------- onlyargs_derive: names

\* fn to_arg_name: replace '_' by '-', then make_ascii_lowercase.
to_arg_name(ident) ==
    [i \in DOMAIN ident |->
        to_ascii_lowercase(IF ident[i] = "_" THEN "-" ELSE ident[i])]

\* infer_short that makes the character found lowercase.
infer_short_lowercased(ident) ==
    LET first(hits) ==
            IF hits = {} THEN None
            ELSE Some(to_ascii_lowercase(ident[CHOOSE i \in hits : \A j \in hits : i <= j]))
    IN  first({i \in DOMAIN ident : is_ascii_alphabetic(ident[i])})

\* name.to_string().chars().find(|ch| ch.is_ascii_alphabetic())
infer_short(ident) ==
    LET first(hits) ==
            IF hits = {} THEN None
            ELSE Some(ident[CHOOSE i \in hits : \A j \in hits : i <= j])
    IN  first({i \in DOMAIN ident : is_ascii_alphabetic(ident[i])})

\* fn parse_char_literal: the literal's text, quotes included.
parse_char_literal(lit) ==
    IF Len(lit) = 3 \/ Len(lit) = 0 \/ lit[1] # "'" \/ lit[Len(lit)] # "'"
    THEN [ok |-> FALSE, ch |-> ""]
    ELSE IF Len(lit) < 2 THEN [ok |-> FALSE, ch |-> ""]
    ELSE [ok |-> TRUE, ch |-> lit[2]]

\* ------------------------------------------- onlyargs_derive: type tables

required_paths == {"::std::path::PathBuf", "std::path::PathBuf", "path::PathBuf", "PathBuf"}

required_os_strings == {"::std::ffi::OsString", "std::ffi::OsString", "ffi::OsString", "OsString"}

required_numbers == {"f32", "f64", "i8", "i16", "i32", "i64", "i128", "isize",
                     "u8", "u16", "u32", "u64", "u128", "usize"}

positional_paths == {"Vec<::std::path::PathBuf>", "Vec<std::path::PathBuf>",
                     "Vec<path::PathBuf>", "Vec<PathBuf>"}

positional_os_strings == {"Vec<::std::ffi::OsString>", "Vec<std::ffi::OsString>",
                          "Vec<ffi::OsString>", "Vec<OsString>"}

positional_numbers == {"Vec<f32>", "Vec<f64>", "Vec<i8>", "Vec<i16>", "Vec<i32>",
                       "Vec<i64>", "Vec<i128>", "Vec<isize>", "Vec<u8>", "Vec<u16>",
                       "Vec<u32>", "Vec<u64>", "Vec<u128>", "Vec<usize>"}

optional_paths == {"Option<::std::path::PathBuf>", "Option<std::path::PathBuf>",
                   "Option<path::PathBuf>", "Option<PathBuf>"}

optional_os_strings == {"Option<::std::ffi::OsString>", "Option<std::ffi::OsString>",
                        "Option<ffi::OsString>", "Option<OsString>"}

optional_numbers == {"Option<f32>", "Option<f64>", "Option<i8>", "Option<i16>",
                     "Option<i32>", "Option<i64>", "Option<i128>", "Option<isize>",
                     "Option<u8>", "Option<u16>", "Option<u32>", "Option<u64>",
                     "Option<u128>", "Option<usize>"}

\* A compile error of the derive macro: spanned_error(msg, span).
spanned_error(msg, span) == [ok |-> FALSE, msg |-> msg, span |-> span]

\* classify_optional that takes a spelling of no table for a required option
\* instead of reporting it.
classify_optional_falls_back(path) ==
    IF \/ path \in optional_paths
       \/ path \in optional_os_strings
       \/ path \in optional_numbers
       \/ path = "Option<String>"
       \/ path \in positional_paths
       \/ path \in positional_os_strings
       \/ path \in positional_numbers
       \/ path = "Vec<String>"
    THEN "optional"
    ELSE "required"

\* ArgOption::parse, the `optional` decision: "error" when no table matches.
classify_optional(path) ==
    IF \/ path \in optional_paths
       \/ path \in optional_os_strings
       \/ path \in optional_numbers
       \/ path = "Option<String>"
       \/ path \in positional_paths
       \/ path \in positional_os_strings
       \/ path \in positional_numbers
       \/ path = "Vec<String>"
    THEN "optional"
    ELSE IF \/ path \in required_paths
            \/ path \in required_os_strings
            \/ path \in required_numbers
            \/ path = "String"
    THEN "required"
    ELSE "error"

\* classify_ty_help that does not look at the tables of the Vec spellings.
classify_ty_help_without_vec(path) ==
    IF path \in optional_paths \cup required_paths
    THEN "Path"
    ELSE IF path \in optional_os_strings \cup required_os_strings
    THEN "OsString"
    ELSE IF path = "String" \/ path = "Option<String>"
    THEN "String"
    ELSE IF path \in optional_numbers \cup required_numbers
    THEN "Number"
    ELSE "unreachable"

\* ArgOption::parse, the `ty_help` decision.
classify_ty_help(path) ==
    IF path \in optional_paths \cup required_paths \cup positional_paths
    THEN "Path"
    ELSE IF path \in optional_os_strings \cup required_os_strings \cup positional_os_strings
    THEN "OsString"
    ELSE IF path = "String" \/ path = "Vec<String>" \/ path = "Option<String>"
    THEN "String"
    ELSE IF path \in optional_numbers \cup required_numbers \cup positional_numbers
    THEN "Number"
    ELSE "unreachable"

\* ArgOption::parse, the `positional` decision: every Vec<..> spelling.
classify_positional(path) ==
    \/ path \in positional_paths
    \/ path \in positional_os_strings
    \/ path \in positional_numbers
    \/ path = "Vec<String>"

\* ArgOption::parse on one field declaration [name, ty, attrs].
ArgOption_parse(field) ==
    LET build(optional) ==
            IF optional = "error"
            THEN spanned_error("Expected bool, PathBuf, String, OsString, integer or float",
                               field.name)
            ELSE [ok |-> TRUE,
                  name |-> field.name,
                  short |-> infer_short(field.name),
                  ty_help |-> classify_ty_help(field.ty),
                  ty |-> field.ty,
                  default |-> None,
                  optional |-> optional = "optional",
                  positional |-> classify_positional(field.ty)]
    IN  build(classify_optional(field.ty))

\* ArgFlag::parse on one field declaration: succeeds only on `name: bool`.
ArgFlag_parse(field) ==
    IF field.ty # "bool"
    THEN spanned_error("Expected bool", field.name)
    ELSE [ok |-> TRUE,
          name |-> field.name,
          short |-> infer_short(field.name),
          output |-> TRUE]

\* ------------------------------------------ onlyargs_derive: attributes

\* fn parse_literal on the first token of an attribute's group: a token is
\* [tok |-> "Literal" | "Ident" | "Punct" | "None", text |-> characters].
parse_literal(token) ==
    IF token.tok = "Literal"
    THEN [ok |-> TRUE, lit |-> token.text]
    ELSE [ok |-> FALSE, lit |-> <<>>]

\* Argument::parse, the loop over a field's attributes: the values of
\* `default`, `long` and `short` after the loop, or the first error.
RECURSIVE parse_field_attrs(_, _, _)
parse_field_attrs(attrs, i, acc) ==
    LET fail(msg) == [acc EXCEPT !.ok = FALSE, !.msg = msg]
        set_default(lit) ==
            IF lit.ok THEN [ok |-> TRUE, acc |-> [acc EXCEPT !.default = Some(lit.lit)]]
            ELSE [ok |-> FALSE, acc |-> fail("Expected literal")]
        set_char(ch) ==
            IF ch.ok THEN [ok |-> TRUE, acc |-> [acc EXCEPT !.short = Some(ch.ch)]]
            ELSE [ok |-> FALSE, acc |-> fail("Expected char literal")]
        set_short(lit) ==
            IF lit.ok THEN set_char(parse_char_literal(lit.lit))
            ELSE [ok |-> FALSE, acc |-> fail("Expected literal")]
        one(attr) ==
            IF attr.name = "default" THEN set_default(parse_literal(attr.arg))
            ELSE IF attr.name = "long" THEN [ok |-> TRUE, acc |-> [acc EXCEPT !.long = TRUE]]
            ELSE IF attr.name = "short" THEN set_short(parse_literal(attr.arg))
            ELSE [ok |-> TRUE, acc |-> acc]
        continue(r) == IF r.ok THEN parse_field_attrs(attrs, i + 1, r.acc) ELSE r.acc
    IN  IF i > Len(attrs) THEN acc ELSE continue(one(attrs[i]))

\* Argument::parse on one field: a flag if ArgFlag::parse accepts it, else an
\* option; then the attributes patch the short name and the default.
Argument_parse_field(field) ==
    LET patch_short(at, short) ==
            IF at.long THEN None ELSE IF is_some(at.short) THEN at.short ELSE short
        patch_flag(at, flag) ==
            [ok |-> TRUE, kind |-> "Flag",
             arg |-> [flag EXCEPT !.short = patch_short(at, @)]]
        patch_option(at, opt) ==
            IF ~opt.ok THEN opt
            ELSE [ok |-> TRUE, kind |-> "Option",
                  arg |-> [opt EXCEPT !.default = at.default,
                                      !.optional = IF is_some(at.default) THEN FALSE ELSE @,
                                      !.short = patch_short(at, @)]]
        flag_or_option(at, flag) ==
            IF flag.ok THEN patch_flag(at, flag) ELSE patch_option(at, ArgOption_parse(field))
        with_attrs(at) ==
            IF ~at.ok THEN spanned_error(at.msg, field.name)
            ELSE flag_or_option(at, ArgFlag_parse(field))
    IN  with_attrs(parse_field_attrs(field.attrs, 1,
            [ok |-> TRUE, msg |-> "", default |-> None, long |-> FALSE, short |-> None]))

\* Argument::parse: every field of the struct in declaration order, or the
\* error of the first field that fails.
RECURSIVE Argument_parse(_, _, _)
Argument_parse(fields, i, args) ==
    LET push(a) == IF a.ok THEN Argument_parse(fields, i + 1, Append(args, a)) ELSE a
    IN  IF i > Len(fields) THEN [ok |-> TRUE, args |-> args]
        ELSE push(Argument_parse_field(fields[i]))

\* partition_fields where a later positional field takes the place of an
\* earlier one.
RECURSIVE partition_fields_last_wins(_, _, _)
partition_fields_last_wins(fields, i, ast) ==
    IF i > Len(fields) THEN ast
    ELSE LET f == fields[i] IN
         IF f.kind = "Flag"
         THEN partition_fields_last_wins(fields, i + 1, [ast EXCEPT !.flags = Append(@, f.arg)])
         ELSE IF f.arg.positional
         THEN partition_fields_last_wins(fields, i + 1, [ast EXCEPT !.positional = Some(f.arg)])
         ELSE partition_fields_last_wins(fields, i + 1,
                                         [ast EXCEPT !.options = Append(@, f.arg)])

\* ArgumentStruct::parse, the loop that fills the three buckets.
RECURSIVE partition_fields(_, _, _)
partition_fields(fields, i, ast) ==
    IF i > Len(fields) THEN ast
    ELSE LET f == fields[i] IN
         IF f.kind = "Flag"
         THEN partition_fields(fields, i + 1, [ast EXCEPT !.flags = Append(@, f.arg)])
         ELSE IF f.arg.positional /\ ~is_some(ast.positional)
         THEN partition_fields(fields, i + 1, [ast EXCEPT !.positional = Some(f.arg)])
         ELSE IF f.arg.positional
         THEN spanned_error("Positional arguments can only be specified once.", f.arg.name)
         ELSE partition_fields(fields, i + 1, [ast EXCEPT !.options = Append(@, f.arg)])

\* ArgumentStruct::parse on a struct declaration (its sequence of fields).
ArgumentStruct_parse(decl) ==
    LET buckets(fields) ==
            IF ~fields.ok THEN fields
            ELSE partition_fields(fields.args, 1,
                     [ok |-> TRUE, flags |-> <<>>, options |-> <<>>, positional |-> None])
    IN  buckets(Argument_parse(decl, 1, <<>>))

\* ------------------------------------------- onlyargs_derive: the schema

\* derive_parser: the two provided flags that precede the struct's own.
builtin_flags ==
    << [ok |-> TRUE, name |-> <<"h", "e", "l", "p">>, short |-> Some("h"), output |-> FALSE],
       [ok |-> TRUE, name |-> <<"v", "e", "r", "s", "i", "o", "n">>, short |-> Some("V"), output |-> FALSE] >>

\* dedupe that never records the short name it has just checked.
RECURSIVE dedupe_forgets(_, _, _)
dedupe_forgets(dupes, views, i) ==
    LET claim(arg, others) ==
            IF others # {}
            THEN [ok |-> FALSE,
                  msg |-> "Only one short arg is allowed.",
                  span |-> arg.name,
                  other |-> (CHOOSE d \in others : TRUE)[2]]
            ELSE dedupe_forgets(dupes, views, i + 1)
        one(arg) ==
            IF ~is_some(arg.short) THEN dedupe_forgets(dupes, views, i + 1)
            ELSE claim(arg, {d \in dupes : d[1] = unwrap(arg.short)})
    IN  IF i > Len(views) THEN [ok |-> TRUE, dupes |-> dupes] ELSE one(views[i])

\* fn dedupe over a sequence of views, `dupes` being the set of
\* <<char, ident>> pairs claimed so far: the first collision, or the new map.
RECURSIVE dedupe(_, _, _)
dedupe(dupes, views, i) ==
    LET claim(arg, others) ==
            IF others # {}
            THEN [ok |-> FALSE,
                  msg |-> "Only one short arg is allowed.",
                  span |-> arg.name,
                  other |-> (CHOOSE d \in others : TRUE)[2]]
            ELSE dedupe(dupes \cup {<<unwrap(arg.short), arg.name>>}, views, i + 1)
        one(arg) ==
            IF ~is_some(arg.short) THEN dedupe(dupes, views, i + 1)
            ELSE claim(arg, {d \in dupes : d[1] = unwrap(arg.short)})
    IN  IF i > Len(views) THEN [ok |-> TRUE, dupes |-> dupes] ELSE one(views[i])

\* ArgFlag::as_view / ArgOption::as_view of each argument: what dedupe reads.
views_of(args) == [i \in DOMAIN args |-> [name |-> args[i].name, short |-> args[i].short]]

\* derive_parser that checks the short names of the options before those of
\* the flags.
derive_parser_options_first(decl) ==
    LET compile_error(e) == e
        generate(ast, d2) ==
            IF ~d2.ok THEN compile_error(d2)
            ELSE [ok |-> TRUE, flags |-> builtin_flags \o ast.flags,
                  options |-> ast.options, positional |-> ast.positional]
        dedupe_flags(ast, d1) ==
            IF ~d1.ok THEN compile_error(d1)
            ELSE generate(ast, dedupe(d1.dupes, views_of(builtin_flags \o ast.flags), 1))
        dedupe_options(ast) ==
            IF ~ast.ok THEN compile_error(ast)
            ELSE dedupe_flags(ast, dedupe({}, views_of(ast.options), 1))
    IN  dedupe_options(ArgumentStruct_parse(decl))

\* derive_parser up to code generation: the schema the generated parser is
\* built from, or the compile error the macro expands to (`return err`).
derive_parser(decl) ==
    LET compile_error(e) == e
        generate(ast, d2) ==
            IF ~d2.ok THEN compile_error(d2)
            ELSE [ok |-> TRUE, flags |-> builtin_flags \o ast.flags,
                  options |-> ast.options, positional |-> ast.positional]
        dedupe_options(ast, d1) ==
            IF ~d1.ok THEN compile_error(d1)
            ELSE generate(ast, dedupe(d1.dupes, views_of(ast.options), 1))
        dedupe_flags(ast) ==
            IF ~ast.ok THEN compile_error(ast)
            ELSE dedupe_options(ast, dedupe({}, views_of(builtin_flags \o ast.flags), 1))
    IN  dedupe_flags(ArgumentStruct_parse(decl))

\* ------------------------------------------------ onlyargs: conversions

\* CliError: the variant, the argument name, the raw value and the cause.
CliError(variant, name, raw, cause) ==
    [variant |-> variant, name |-> name, raw |-> raw, cause |-> cause]

NoError == CliError("None", <<>>, <<>>, "None")

Ok(v) == [ok |-> TRUE, v |-> v, err |-> NoError]

Err(e) == [ok |-> FALSE, v |-> <<>>, err |-> e]

\* From<OsString> for PathBuf
PathBuf_from(os) == [path |-> os]

DigitChars == <<"0", "1", "2", "3", "4", "5", "6", "7", "8", "9">>

\* The integer types of the declarations in scope: signedness and the
\* largest magnitudes, by the field's type spelling.
int_type(path) ==
    CASE path \in {"i8", "Option<i8>", "Vec<i8>"} -> [signed |-> TRUE, max |-> 127, min |-> -128]
      [] path \in {"u8", "Option<u8>", "Vec<u8>"} -> [signed |-> FALSE, max |-> 255, min |-> 0]
      [] path \in {"i16", "Option<i16>", "Vec<i16>"} -> [signed |-> TRUE, max |-> 32767, min |-> -32768]
      [] path \in {"u16", "Option<u16>", "Vec<u16>"} -> [signed |-> FALSE, max |-> 65535, min |-> 0]
      [] path \in {"i32", "Option<i32>", "Vec<i32>"} ->
            [signed |-> TRUE, max |-> 2147483647, min |-> -2147483647 - 1]

\* core::num::from_str_radix, radix 10, accumulating towards the sign so
\* that no intermediate value leaves the type's range.
RECURSIVE accumulate_digits(_, _, _, _, _)
accumulate_digits(digits, i, acc, positive, ty) ==
    LET fail(cause) == [ok |-> FALSE, v |-> 0, cause |-> cause]
        add(d) ==
            IF positive /\ acc > (ty.max - d) \div 10 THEN fail("PosOverflow")
            ELSE IF ~positive /\ acc < (ty.min + d + 9) \div 10 THEN fail("NegOverflow")
            ELSE accumulate_digits(digits, i + 1,
                     IF positive THEN acc * 10 + d ELSE acc * 10 - d, positive, ty)
    IN  IF i > Len(digits) THEN [ok |-> TRUE, v |-> acc, cause |-> "None"]
        ELSE IF digits[i] \notin Range(DigitChars) THEN fail("InvalidDigit")
        ELSE add((CHOOSE d \in DOMAIN DigitChars : DigitChars[d] = digits[i]) - 1)

\* <T as FromStr>::from_str for an integer type T.
int_from_str(string, ty) ==
    IF Len(string) = 0 THEN [ok |-> FALSE, v |-> 0, cause |-> "Empty"]
    ELSE IF Len(string) = 1 /\ string[1] \in {"+", "-"}
    THEN [ok |-> FALSE, v |-> 0, cause |-> "InvalidDigit"]
    ELSE accumulate_digits(
             IF string[1] = "+" \/ (string[1] = "-" /\ ty.signed) THEN Tail(string) ELSE string,
             1, 0, ~(string[1] = "-" /\ ty.signed), ty)

\* impl ArgExt for OsString (a positional token)
OsString_parse_str(self, name) ==
    LET into_string(string) ==
            IF is_some(string) THEN Ok(unwrap(string))
            ELSE Err(CliError("ParseStrError", name, self, "None"))
    IN  into_string(to_str(self))

OsString_parse_path(self, name) == Ok(PathBuf_from(self))

OsString_parse_osstr(self, name) == Ok(self)

OsString_parse_int(self, name, ty) ==
    LET map_err(n) ==
            IF n.ok THEN Ok(n.v) ELSE Err(CliError("ParseIntError", name, self, n.cause))
        and_then(string) == IF ~string.ok THEN string ELSE map_err(int_from_str(string.v, ty))
    IN  and_then(OsString_parse_str(self, name))

\* impl ArgExt for Option<OsString> (args.next() after an option name)
Option_parse_str(self, name) ==
    LET into_string(string) ==
            IF is_some(string) THEN Ok(unwrap(string))
            ELSE Err(CliError("ParseStrError", name, unwrap(self), "None"))
    IN  IF ~is_some(self) THEN Err(CliError("MissingValue", name, <<>>, "None"))
        ELSE into_string(to_str(unwrap(self)))

Option_parse_path(self, name) ==
    IF ~is_some(self) THEN Err(CliError("MissingValue", name, <<>>, "None"))
    ELSE Ok(PathBuf_from(unwrap(self)))

Option_parse_osstr(self, name) ==
    IF ~is_some(self) THEN Err(CliError("MissingValue", name, <<>>, "None"))
    ELSE Ok(unwrap(self))

\* A panic of the thread: Option::unwrap on None.
Panicked == [ok |-> FALSE, v |-> <<>>, err |-> CliError("Panic", <<>>, <<>>, "unwrap on None")]

\* The text of a floating-point number as <f64 as FromStr>::from_str takes
\* it: an optional sign, then inf, infinity or nan in any case, or digits
\* with an optional point and an optional exponent, one digit at least in
\* the part before the exponent.
float_from_str(string) ==
    LET unsigned == IF Len(string) > 0 /\ string[1] \in {"+", "-"} THEN Tail(string) ELSE string
        lower == [i \in DOMAIN unsigned |-> to_ascii_lowercase(unsigned[i])]
        es == {i \in DOMAIN lower : lower[i] = "e"}
        cut == IF es = {} THEN Len(lower) + 1 ELSE CHOOSE i \in es : \A j \in es : i <= j
        mantissa == SubSeq(lower, 1, cut - 1)
        exponent == SubSeq(lower, cut + 1, Len(lower))
        exp_digits == IF Len(exponent) > 0 /\ exponent[1] \in {"+", "-"}
                      THEN Tail(exponent) ELSE exponent
        points == {i \in DOMAIN mantissa : mantissa[i] = "."}
        digits == {i \in DOMAIN mantissa : mantissa[i] \in Range(DigitChars)}
        number == /\ Cardinality(points) <= 1
                  /\ digits \cup points = DOMAIN mantissa
                  /\ digits # {}
                  /\ es # {} => /\ Len(exp_digits) > 0
                                /\ \A i \in DOMAIN exp_digits : exp_digits[i] \in Range(DigitChars)
        special == lower \in {<<"i", "n", "f">>, <<"n", "a", "n">>,
                              <<"i", "n", "f", "i", "n", "i", "t", "y">>}
    IN  IF Len(string) = 0 THEN [ok |-> FALSE, v |-> <<>>, cause |-> "Empty"]
        ELSE IF special \/ number
        THEN [ok |-> TRUE,
              v |-> [negative |-> string[1] = "-", mantissa |-> mantissa, exponent |-> exponent],
              cause |-> "None"]
        ELSE [ok |-> FALSE, v |-> <<>>, cause |-> "Invalid"]

\* parse_int that unwraps the argument before it looks at its text.
Option_parse_int_unwraps_first(self, name, ty) ==
    LET map_err(n, raw) ==
            IF n.ok THEN Ok(n.v) ELSE Err(CliError("ParseIntError", name, raw, n.cause))
        and_then(string, raw) ==
            IF ~string.ok THEN string ELSE map_err(int_from_str(string.v, ty), raw)
    IN  IF ~is_some(self) THEN Panicked
        ELSE and_then(Option_parse_str(self, name), unwrap(self))

\* parse_int that reports every failure of the integer conversion as a
\* failure of the text conversion.
Option_parse_int_blames_text(self, name, ty) ==
    LET map_err(n) ==
            IF n.ok THEN Ok(n.v)
            ELSE Err(CliError("ParseStrError", name, unwrap(self), "None"))
        and_then(string) == IF ~string.ok THEN string ELSE map_err(int_from_str(string.v, ty))
    IN  and_then(Option_parse_str(self, name))

\* parse_int: self.clone().parse_str(&name).and_then(|string| string.parse()
\* .map_err(|err| ParseIntError(name, self.unwrap(), err))); the unwrap of a
\* None is a panic.
Option_parse_int(self, name, ty) ==
    LET map_err(n) ==
            IF n.ok THEN Ok(n.v)
            ELSE IF ~is_some(self) THEN Panicked
            ELSE Err(CliError("ParseIntError", name, unwrap(self), n.cause))
        and_then(string) == IF ~string.ok THEN string ELSE map_err(int_from_str(string.v, ty))
    IN  and_then(Option_parse_str(self, name))

\* parse_float, of the same shape as parse_int.
Option_parse_float(self, name) ==
    LET map_err(n) ==
            IF n.ok THEN Ok(n.v)
            ELSE IF ~is_some(self) THEN Panicked
            ELSE Err(CliError("ParseFloatError", name, unwrap(self), n.cause))
        and_then(string) == IF ~string.ok THEN string ELSE map_err(float_from_str(string.v))
    IN  and_then(Option_parse_str(self, name))

\* impl RequiredArgExt for Option<T>
Option_required(self, name) ==
    IF is_some(self) THEN Ok(unwrap(self))
    ELSE Err(CliError("MissingRequired", name, <<>>, "None"))

\* ------------------------------------- struct declarations in scope

Attr(name) == [name |-> name, arg |-> [tok |-> "None", text |-> <<>>]]

AttrLit(name, text) == [name |-> name, arg |-> [tok |-> "Literal", text |-> text]]

Field(name, ty, attrs) == [name |-> name, ty |-> ty, attrs |-> attrs]

\* opt_str: Option<String>
F_opt_str == Field(<<"o", "p", "t", "_", "s", "t", "r">>, "Option<String>", <<>>)

\* #[positional] rest: Vec<String>
F_rest == Field(<<"r", "e", "s", "t">>, "Vec<String>", <<Attr("positional")>>)

\* names: Vec<String>
F_names == Field(<<"n", "a", "m", "e", "s">>, "Vec<String>", <<>>)

\* #[required] names: Vec<String>
F_required_names == Field(<<"n", "a", "m", "e", "s">>, "Vec<String>", <<Attr("required")>>)

\* #[required] #[positional] rest: Vec<String>
F_required_rest ==
    Field(<<"r", "e", "s", "t">>, "Vec<String>", <<Attr("required"), Attr("positional")>>)

\* path: Vec<PathBuf>
F_path == Field(<<"p", "a", "t", "h">>, "Vec<PathBuf>", <<>>)

\* verbose: bool
F_verbose == Field(<<"v", "e", "r", "b", "o", "s", "e">>, "bool", <<>>)

\* output: Option<PathBuf>
F_output == Field(<<"o", "u", "t", "p", "u", "t">>, "Option<PathBuf>", <<>>)

\* #[default(42)] width: i32
F_width == Field(<<"w", "i", "d", "t", "h">>, "i32", <<AttrLit("default", <<"4", "2">>)>>)

\* username: String
F_username == Field(<<"u", "s", "e", "r", "n", "a", "m", "e">>, "String", <<>>)

\* Verify: bool, whose inferred short name is the provided -V
F_Verify == Field(<<"V", "e", "r", "i", "f", "y">>, "bool", <<>>)

\* Name: Option<String>, whose first alphabetic character is uppercase
F_Name == Field(<<"N", "a", "m", "e">>, "Option<String>", <<>>)

\* _2fast: bool, whose first alphabetic character is the third one
F_2fast == Field(<<"_", "2", "f", "a", "s", "t">>, "bool", <<>>)

\* #[short('N')] name: Option<String>
F_short_N ==
    Field(<<"n", "a", "m", "e">>, "Option<String>", <<AttrLit("short", <<"'", "N", "'">>)>>)

\* #[default(5)] nums: Vec<i32>
F_default_nums == Field(<<"n", "u", "m", "s">>, "Vec<i32>", <<AttrLit("default", <<"5">>)>>)

\* ratio: f64
F_ratio == Field(<<"r", "a", "t", "i", "o">>, "f64", <<>>)

\* only: bool, whose inferred short name is the -o of `output`
F_only == Field(<<"o", "n", "l", "y">>, "bool", <<>>)

\* open: bool, a second flag whose inferred short name is -o
F_open == Field(<<"o", "p", "e", "n">>, "bool", <<>>)

\* level: u8
F_level == Field(<<"l", "e", "v", "e", "l">>, "u8", <<>>)

\* The last but one is `hidden: bool`, whose inferred short name is the
\* provided -h.
FieldPool == {F_opt_str, F_rest, F_names, F_verbose, F_output, F_width,
              Field(<<"h", "i", "d", "d", "e", "n">>, "bool", <<>>), F_Verify}

\* The struct of examples/full-derive; its third field is `numbers: Vec<i32>`.
FullDeriveArgs ==
    <<F_username, F_output, Field(<<"n", "u", "m", "b", "e", "r", "s">>, "Vec<i32>", <<>>),
      F_width, F_verbose>>

\* Struct declarations: the empty struct, every struct of one or two
\* distinct pool fields in either order, and the structs of tests/parsing.rs,
\* of the compile tests and of the crate documentation that are not pairs
\* of pool fields (among them `#[long] opt_osstring: Option<std::ffi::OsString>`).
Decls ==
    {<<>>} \cup {<<f>> : f \in FieldPool}
           \cup {<<f, g>> : <<f, g>> \in {p \in FieldPool \X FieldPool : p[1].name # p[2].name}}
           \cup {<<F_path>>, <<F_required_names>>, <<F_required_rest>>, FullDeriveArgs,
                 <<F_username>>, <<F_Name>>, <<F_2fast>>, <<F_short_N>>,
                 <<Field(<<"o", "p", "t", "_", "o", "s", "s", "t", "r", "i", "n", "g">>,
                         "Option<std::ffi::OsString>", <<Attr("long")>>)>>,
                 <<F_default_nums>>, <<F_ratio>>, <<F_output, F_only>>, <<F_only, F_output>>,
                 <<F_only, F_open>>, <<F_open, F_only>>, <<F_output, F_only, F_open>>,
                 <<F_username, F_level>>, <<F_level, F_username>>}

\* ------------------------------------------------------ inputs in scope

tok_help == <<"-", "-", "h", "e", "l", "p">>

tok_h == <<"-", "h">>

tok_version == <<"-", "-", "v", "e", "r", "s", "i", "o", "n">>

tok_V == <<"-", "V">>

tok_escape == <<"-", "-">>

tok_opt_str == <<"-", "-", "o", "p", "t", "-", "s", "t", "r">>

tok_name == <<"-", "-", "n", "a", "m", "e">>

tok_names == <<"-", "-", "n", "a", "m", "e", "s">>

tok_path == <<"-", "-", "p", "a", "t", "h">>

tok_v == <<"-", "v">>

tok_w == <<"-", "w">>

tok_Alice == <<"A", "l", "i", "c", "e">>

tok_Bob == <<"B", "o", "b">>

tok_Carol == <<"C", "a", "r", "o", "l">>

tok_David == <<"D", "a", "v", "i", "d">>

tok_slash_a == <<"/", "a">>

tok_slash_b == <<"/", "b">>

tok_7 == <<"7">>

tok_9 == <<"9">>

\* A token that is not valid UTF-8.
tok_bad == <<"B", BadByte>>

tok_empty == <<>>

\* 2^32, which no i32 holds.
tok_big == <<"4", "2", "9", "4", "9", "6", "7", "2", "9", "6">>

tok_u == <<"-", "u">>

tok_username == <<"-", "-", "u", "s", "e", "r", "n", "a", "m", "e">>

tok_output == <<"-", "-", "o", "u", "t", "p", "u", "t">>

tok_N == <<"-", "N">>

tok_n == <<"-", "n">>

tok_f == <<"-", "f">>

tok_l == <<"-", "l">>

Alphabet == {tok_help, tok_V, tok_escape, tok_opt_str, tok_name, tok_Alice,
             tok_v, tok_bad}

\* The longest input built from the alphabet.
MaxArgs == 3

\* Every sequence over the alphabet of length at most MaxArgs, the inputs of
\* tests/parsing.rs and of the documented examples, and inputs that reach
\* every conversion and the options of the structs above.
Inputs ==
    UNION {[1..m -> Alphabet] : m \in 0..MaxArgs} \cup
    { <<tok_path, tok_slash_a, tok_path, tok_slash_b>>,
      <<tok_path, tok_slash_a, tok_path, tok_slash_b, tok_path, tok_Alice>>,
      <<tok_names, tok_Alice, tok_names, tok_Bob, tok_Carol, tok_David>>,
      <<tok_names, tok_Alice>>,
      <<tok_Bob>>,
      <<tok_Alice, tok_name, tok_Bob>>,
      <<tok_Alice, tok_opt_str, tok_name, tok_Bob>>,
      <<tok_Alice, tok_escape, tok_opt_str, tok_name, tok_Bob>>,
      <<tok_h>>, <<tok_version>>, <<tok_w, tok_7, tok_Alice>>,
      <<tok_w, tok_7>>, <<tok_w, tok_bad>>, <<tok_w, tok_Alice>>,
      <<tok_w, tok_big>>, <<tok_w, tok_empty>>, <<tok_w>>,
      <<tok_output, tok_bad>>, <<<<"-", "-", "o", "p", "t", "-", "o", "s", "s", "t", "r", "i", "n", "g">>, tok_bad>>,
      <<tok_u, tok_Alice>>, <<tok_username, tok_Bob, tok_7>>,
      <<tok_u, tok_Alice, tok_w, tok_7, tok_v>>,
      <<tok_u, tok_Alice, tok_escape, tok_w>>,
      <<tok_N, tok_Alice>>, <<tok_n, tok_Alice>>, <<tok_f>>,
      <<tok_v, tok_u, tok_Alice, tok_7, tok_escape, tok_7>>,
      <<tok_w, tok_help>>, <<tok_output, tok_V>>, <<tok_Alice, tok_h>>,
      <<tok_l, tok_7>>, <<tok_l, tok_7, tok_Alice>>, <<tok_l, tok_big, tok_Alice>>,
      <<tok_opt_str, tok_Alice, tok_opt_str, tok_Bob>>,
      <<tok_w, tok_7, tok_w, tok_9>>, <<tok_u, tok_Alice, tok_username, tok_Bob>>,
      <<tok_v, tok_u, tok_Alice, tok_v>> }

\* ------------------------------------------- the generated parser: state

VARIABLES
    decl,     \* the struct declaration given to #[derive(OnlyArgs)]
    schema,   \* what derive_parser made of it: a schema or a compile error
    pc,       \* "source", "rejected", "ill_typed", "ready", "loop", "rest", "build",
              \* "returned", "exited"
    args,     \* the Vec<OsString> given to parse
    pos,      \* index of the token the iterator `args` yields next
    flagv,    \* the generated `let mut <flag> = false;` variables
    optv,     \* the generated `let mut <option> = None | <default>;` variables
    posv,     \* the generated `let mut <positional> = vec![];` variable
    ret,      \* how the call ended: Ok(Self), Err(CliError) or process exit
    prev,     \* the result of the previous call of parse on the same input
    calls     \* number of calls of parse so far

vars == <<decl, schema, pc, args, pos, flagv, optv, posv, ret, prev, calls>>

Pending ==
    [kind |-> "Pending", flags |-> <<>>, options |-> <<>>, positional |-> <<>>,
     err |-> NoError, printed |-> "", code |-> -1]

ReturnOk(flags, options, positional) ==
    [Pending EXCEPT !.kind = "Ok", !.flags = flags, !.options = options,
                    !.positional = positional]

ReturnErr(e) == [Pending EXCEPT !.kind = "Err", !.err = e]

\* OnlyArgs::help / OnlyArgs::version: eprintln! the text, process::exit(0).
Exit(text) == [Pending EXCEPT !.kind = "Exit", !.printed = text, !.code = 0]

\* The flags that get a variable and a matcher: those with `output`.
output_flags(sch) == SelectSeq(sch.flags, LAMBDA f : f.output)

long_spelling(name) == <<"-", "-">> \o to_arg_name(name)

\* Some("--{arg}") | Some("-{ch}"): does the pattern generated for `a`
\* match the token's text `s` (an Option of characters)?
matches(a, s) ==
    /\ is_some(s)
    /\ \/ s = Some(long_spelling(a.name))
       \/ is_some(a.short) /\ s = Some(<<"-", unwrap(a.short)>>)

\* The first arm among those generated for the sequence `as` that matches,
\* 0 if none does.
first_match(as, s) ==
    LET first(hits) == IF hits = {} THEN 0 ELSE CHOOSE i \in hits : \A j \in hits : i <= j
    IN  first({i \in DOMAIN as : matches(as[i], s)})

\* options_vars that starts an option with a default at the zero of its type,
\* the literal lost.
option_var_forgets_default(opt) == IF is_some(opt.default) THEN 0 ELSE None

\* options_vars: the variable an option starts with, a default literal
\* having its value as in the generated `let mut x = <lit>;`.
option_var(opt) ==
    LET literal_value(lit) ==
            IF \A i \in DOMAIN lit : lit[i] \in Range(DigitChars)
            THEN int_from_str(lit, int_type(opt.ty)).v
            ELSE lit
    IN  IF is_some(opt.default) THEN literal_value(unwrap(opt.default)) ELSE None

\* options_matchers: the conversion of args.next() for an option.
option_value(opt, next, name) ==
    CASE opt.ty_help = "Number" -> Option_parse_int(next, name, int_type(opt.ty))
      [] opt.ty_help = "OsString" -> Option_parse_osstr(next, name)
      [] opt.ty_help = "Path" -> Option_parse_path(next, name)
      [] opt.ty_help = "String" -> Option_parse_str(next, name)

POSITIONAL == <<"<", "P", "O", "S", "I", "T", "I", "O", "N", "A", "L", ">">>

\* positional_matcher: the conversion of a token for the positional field.
positional_value(opt, arg) ==
    CASE opt.ty_help = "Number" -> OsString_parse_int(arg, POSITIONAL, int_type(opt.ty))
      [] opt.ty_help = "OsString" -> OsString_parse_osstr(arg, POSITIONAL)
      [] opt.ty_help = "Path" -> OsString_parse_path(arg, POSITIONAL)
      [] opt.ty_help = "String" -> OsString_parse_str(arg, POSITIONAL)

\* options_idents without the call of required: an option that was never set
\* is passed on as it is.
RECURSIVE options_idents_unchecked(_, _, _, _)
options_idents_unchecked(opts, vals, i, acc) ==
    LET field(r) == options_idents_unchecked(opts, vals, i + 1, Append(acc, r.v))
    IN  IF i > Len(opts) THEN Ok(acc)
        ELSE IF is_some(opts[i].default) \/ opts[i].optional
        THEN field(Ok(vals[i]))
        ELSE field(Ok(IF is_some(vals[i]) THEN unwrap(vals[i]) ELSE None))

\* options_idents that reports the required option declared last among
\* those that are missing.
options_idents_backwards(opts, vals, i, acc) ==
    LET missing == {k \in DOMAIN opts :
                        /\ ~is_some(opts[k].default) /\ ~opts[k].optional
                        /\ ~is_some(vals[k])}
        value(k) == IF is_some(opts[k].default) \/ opts[k].optional
                    THEN vals[k] ELSE unwrap(vals[k])
    IN  IF missing = {} THEN Ok([k \in DOMAIN opts |-> value(k)])
        ELSE Option_required(None,
                 long_spelling(opts[CHOOSE k \in missing : \A j \in missing : j <= k].name))

\* options_idents: the constructor's value for each option, or the first
\* MissingRequired in declaration order.
RECURSIVE options_idents(_, _, _, _)
options_idents(opts, vals, i, acc) ==
    LET field(r) == IF r.ok THEN options_idents(opts, vals, i + 1, Append(acc, r.v)) ELSE r
    IN  IF i > Len(opts) THEN Ok(acc)
        ELSE IF is_some(opts[i].default) \/ opts[i].optional
        THEN field(Ok(vals[i]))
        ELSE field(Option_required(vals[i], long_spelling(opts[i].name)))

\* The spellings of the tables whose value type is f32 or f64.
float_spellings ==
    {"f32", "f64", "Option<f32>", "Option<f64>", "Vec<f32>", "Vec<f64>"}

\* options_matchers / positional_matcher: the conversion method written into
\* the generated code for a value kind.
number_parser(ty_help) ==
    CASE ty_help = "Number" -> "parse_int"
      [] ty_help = "OsString" -> "parse_osstr"
      [] ty_help = "Path" -> "parse_path"
      [] ty_help = "String" -> "parse_str"

\* The bound of ArgExt::parse_int, T: FromStr<Err = ParseIntError>, and of
\* parse_float, T: FromStr<Err = ParseFloatError>; the other methods are not
\* generic in the value.
parser_bound(method, ty) ==
    CASE method = "parse_int" -> ty \notin float_spellings
      [] method = "parse_float" -> ty \in float_spellings
      [] OTHER -> TRUE

\* The compiler's type check of the generated impl: every conversion's
\* bound holds for the field it fills and every default has the field's type.
\* `let mut {name} = {default};` against the field's type: an integer
\* literal is a value of a required integer field and of nothing else in
\* the tables; a string literal is a &str, which is no type of the tables.
type_checks(sch) ==
    /\ \A i \in DOMAIN sch.options :
           /\ parser_bound(number_parser(sch.options[i].ty_help), sch.options[i].ty)
           /\ is_some(sch.options[i].default) =>
                  /\ \A k \in DOMAIN unwrap(sch.options[i].default) :
                         unwrap(sch.options[i].default)[k] \in Range(DigitChars)
                  /\ sch.options[i].ty \in required_numbers \ float_spellings
    /\ \A i \in DOMAIN sch.positional :
           parser_bound(number_parser(sch.positional[i].ty_help), sch.positional[i].ty)

Init ==
    /\ decl = <<>>
    /\ schema = [ok |-> FALSE, msg |-> "", span |-> <<>>]
    /\ pc = "source"
    /\ args = <<>>
    /\ pos = 1
    /\ flagv = <<>>
    /\ optv = <<>>
    /\ posv = <<>>
    /\ ret = Pending
    /\ prev = Pending
    /\ calls = 0

\* #[derive(OnlyArgs)] expands on a struct declaration, and the compiler
\* checks the expansion.
Derive ==
    /\ pc = "source"
    /\ \E d \in Decls :
        /\ decl' = d
        /\ \E expansion \in {derive_parser(d)} :
            /\ schema' = expansion
            /\ pc' = IF ~expansion.ok THEN "rejected"
                     ELSE IF ~type_checks(expansion) THEN "ill_typed"
                     ELSE "ready"
    /\ UNCHANGED <<args, pos, flagv, optv, posv, ret, prev, calls>>

\* enter_parse with the positional values kept in a variable that outlives
\* the call.
enter_parse_keeps_positional(a) ==
    /\ args' = a
    /\ pos' = 1
    /\ flagv' = [i \in DOMAIN output_flags(schema) |-> FALSE]
    /\ optv' = [i \in DOMAIN schema.options |-> option_var(schema.options[i])]
    /\ posv' = posv
    /\ ret' = Pending
    /\ pc' = "loop"
    /\ calls' = calls + 1

\* The head of the generated parse: the state variables and the iterator.
enter_parse(a) ==
    /\ args' = a
    /\ pos' = 1
    /\ flagv' = [i \in DOMAIN output_flags(schema) |-> FALSE]
    /\ optv' = [i \in DOMAIN schema.options |-> option_var(schema.options[i])]
    /\ posv' = <<>>
    /\ ret' = Pending
    /\ pc' = "loop"
    /\ calls' = calls + 1

\* A call of the generated parse(args).
Parse ==
    /\ pc = "ready"
    /\ \E a \in Inputs : enter_parse(a)
    /\ UNCHANGED <<decl, schema, prev>>

\* The token the loop is looking at, and its text.
arg == args[pos]

arg_str == to_str(arg)

in_loop == pc = "loop" /\ pos <= Len(args)

flag_hit == first_match(output_flags(schema), arg_str)

option_hit == first_match(schema.options, arg_str)

\* Which arm of the generated `match arg.to_str()` takes the token.
arm ==
    IF arg_str \in {Some(tok_help), Some(tok_h)} THEN "help"
    ELSE IF arg_str \in {Some(tok_version), Some(tok_V)} THEN "version"
    ELSE IF flag_hit # 0 THEN "flag"
    ELSE IF option_hit # 0 THEN "option"
    ELSE IF arg_str = Some(tok_escape) THEN "escape"
    ELSE "other"

\* MatchHelp that prints the help and goes on with the next token.
MatchHelp_goes_on ==
    /\ in_loop /\ arm = "help"
    /\ ret' = [ret EXCEPT !.printed = "HELP"]
    /\ pos' = pos + 1
    /\ UNCHANGED <<decl, schema, pc, args, flagv, optv, posv, prev, calls>>

\* Some("--help") | Some("-h") => Self::help()
MatchHelp ==
    /\ in_loop /\ arm = "help"
    /\ ret' = Exit("HELP")
    /\ pc' = "exited"
    /\ pos' = pos + 1
    /\ UNCHANGED <<decl, schema, args, flagv, optv, posv, prev, calls>>

\* Some("--version") | Some("-V") => Self::version()
MatchVersion ==
    /\ in_loop /\ arm = "version"
    /\ ret' = Exit("VERSION")
    /\ pc' = "exited"
    /\ pos' = pos + 1
    /\ UNCHANGED <<decl, schema, args, flagv, optv, posv, prev, calls>>

\* MatchFlag that sets the flag and leaves the token in the iterator.
MatchFlag_stays ==
    /\ in_loop /\ arm = "flag"
    /\ flagv' = [flagv EXCEPT ![flag_hit] = TRUE]
    /\ pos' = pos
    /\ UNCHANGED <<decl, schema, pc, args, optv, posv, ret, prev, calls>>

\* MatchFlag that flips the flag each time it is given.
MatchFlag_toggles ==
    /\ in_loop /\ arm = "flag"
    /\ flagv' = [flagv EXCEPT ![flag_hit] = ~@]
    /\ pos' = pos + 1
    /\ UNCHANGED <<decl, schema, pc, args, optv, posv, ret, prev, calls>>

\* flags_matchers: Some("--{arg}") | Some("-{ch}") => {name} = true
MatchFlag ==
    /\ in_loop /\ arm = "flag"
    /\ flagv' = [flagv EXCEPT ![flag_hit] = TRUE]
    /\ pos' = pos + 1
    /\ UNCHANGED <<decl, schema, pc, args, optv, posv, ret, prev, calls>>

\* MatchOption that lets an option name at the end of the input pass as if
\* the option had not been given.
MatchOption_forgives ==
    /\ in_loop /\ arm = "option"
    /\ \E hit \in {option_hit} :
       \E next \in {IF pos + 1 <= Len(args) THEN Some(args[pos + 1]) ELSE None} :
       \E value \in {IF is_some(next)
                     THEN option_value(schema.options[hit], next, unwrap(arg_str))
                     ELSE Ok(optv[hit])} :
           /\ pos' = IF is_some(next) THEN pos + 2 ELSE pos + 1
           /\ IF value.ok
              THEN /\ optv' = [optv EXCEPT ![hit] =
                                  IF is_some(schema.options[hit].default) \/ ~is_some(next)
                                  THEN value.v ELSE Some(value.v)]
                   /\ UNCHANGED <<pc, ret>>
              ELSE /\ ret' = ReturnErr(value.err)
                   /\ pc' = "returned"
                   /\ UNCHANGED optv
    /\ UNCHANGED <<decl, schema, args, flagv, posv, prev, calls>>

\* MatchOption that takes no value that begins with a dash.
MatchOption_shy ==
    /\ in_loop /\ arm = "option"
    /\ \E hit \in {option_hit} :
       \E next \in {IF pos + 1 <= Len(args) /\ SubSeq(args[pos + 1], 1, 1) # <<"-">>
                    THEN Some(args[pos + 1]) ELSE None} :
       \E value \in {option_value(schema.options[hit], next, unwrap(arg_str))} :
           /\ pos' = IF is_some(next) THEN pos + 2 ELSE pos + 1
           /\ IF value.ok
              THEN /\ optv' = [optv EXCEPT ![hit] =
                                  IF is_some(schema.options[hit].default)
                                  THEN value.v ELSE Some(value.v)]
                   /\ UNCHANGED <<pc, ret>>
              ELSE /\ ret' = ReturnErr(value.err)
                   /\ pc' = "returned"
                   /\ UNCHANGED optv
    /\ UNCHANGED <<decl, schema, args, flagv, posv, prev, calls>>

\* MatchOption that looks at the value for a help or version spelling before
\* it takes it, and exits on one.
MatchOption_sees_help ==
    /\ in_loop /\ arm = "option"
    /\ \E hit \in {option_hit} :
       \E next \in {IF pos + 1 <= Len(args) THEN Some(args[pos + 1]) ELSE None} :
       \E value \in {option_value(schema.options[hit], next, unwrap(arg_str))} :
           /\ pos' = IF is_some(next) THEN pos + 2 ELSE pos + 1
           /\ IF is_some(next) /\ to_str(unwrap(next)) \in
                  {Some(tok_help), Some(tok_h), Some(tok_version), Some(tok_V)}
              THEN /\ ret' = Exit("HELP")
                   /\ pc' = "exited"
                   /\ UNCHANGED optv
              ELSE IF value.ok
              THEN /\ optv' = [optv EXCEPT ![hit] =
                                  IF is_some(schema.options[hit].default)
                                  THEN value.v ELSE Some(value.v)]
                   /\ UNCHANGED <<pc, ret>>
              ELSE /\ ret' = ReturnErr(value.err)
                   /\ pc' = "returned"
                   /\ UNCHANGED optv
    /\ UNCHANGED <<decl, schema, args, flagv, posv, prev, calls>>

\* options_matchers: Some(name @ "--{arg}") | Some(name @ "-{ch}") =>
\*     {name} = [Some(]args.next().parse_xxx(name)?[)]
MatchOption ==
    /\ in_loop /\ arm = "option"
    /\ \E hit \in {option_hit} :
       \E next \in {IF pos + 1 <= Len(args) THEN Some(args[pos + 1]) ELSE None} :
       \E value \in {option_value(schema.options[hit], next, unwrap(arg_str))} :
           /\ pos' = IF is_some(next) THEN pos + 2 ELSE pos + 1
           /\ IF value.ok
              THEN /\ optv' = [optv EXCEPT ![hit] =
                                  IF is_some(schema.options[hit].default)
                                  THEN value.v ELSE Some(value.v)]
                   /\ UNCHANGED <<pc, ret>>
              ELSE /\ ret' = ReturnErr(value.err)
                   /\ pc' = "returned"
                   /\ UNCHANGED optv
    /\ UNCHANGED <<decl, schema, args, flagv, posv, prev, calls>>

\* MatchEscape that, without a positional field, drops `--` and reads on.
MatchEscape_reads_on ==
    /\ in_loop /\ arm = "escape"
    /\ pc' = IF is_some(schema.positional) THEN "rest" ELSE "loop"
    /\ pos' = pos + 1
    /\ UNCHANGED <<decl, schema, args, flagv, optv, posv, ret, prev, calls>>

\* MatchEscape with `--` skipped and the match going on for the later tokens.
MatchEscape_keeps_matching ==
    /\ in_loop /\ arm = "escape"
    /\ pos' = pos + 1
    /\ UNCHANGED <<decl, schema, pc, args, flagv, optv, posv, ret, prev, calls>>

\* positional_matcher: Some("--") => { for arg in args { .. } break; } with a
\* positional field, Some("--") => break without one.
MatchEscape ==
    /\ in_loop /\ arm = "escape"
    /\ pc' = IF is_some(schema.positional) THEN "rest" ELSE "build"
    /\ pos' = pos + 1
    /\ UNCHANGED <<decl, schema, args, flagv, optv, posv, ret, prev, calls>>

\* {name}.push(arg.parse_xxx("<POSITIONAL>")?)
push_positional ==
    \E value \in {positional_value(unwrap(schema.positional), arg)} :
        /\ pos' = pos + 1
        /\ IF value.ok
           THEN /\ posv' = Append(posv, value.v)
                /\ UNCHANGED <<pc, ret>>
           ELSE /\ ret' = ReturnErr(value.err)
                /\ pc' = "returned"
                /\ UNCHANGED posv

\* MatchOther with the unmatched token dropped when there is a positional
\* field.
MatchOther_drops_token ==
    /\ in_loop /\ arm = "other"
    /\ IF is_some(schema.positional)
       THEN pos' = pos + 1 /\ UNCHANGED <<pc, ret, posv>>
       ELSE /\ ret' = ReturnErr(CliError("Unknown", <<>>, arg, "None"))
            /\ pc' = "returned"
            /\ pos' = pos + 1
            /\ UNCHANGED posv
    /\ UNCHANGED <<decl, schema, args, flagv, optv, prev, calls>>

\* MatchOther as the hand-written parser of examples/full has it: a token
\* that is not UTF-8 is Unknown even with a positional field.
MatchOther_rejects_non_utf8 ==
    /\ in_loop /\ arm = "other"
    /\ IF is_some(schema.positional) /\ is_some(arg_str)
       THEN push_positional
       ELSE /\ ret' = ReturnErr(CliError("Unknown", <<>>, arg, "None"))
            /\ pc' = "returned"
            /\ pos' = pos + 1
            /\ UNCHANGED posv
    /\ UNCHANGED <<decl, schema, args, flagv, optv, prev, calls>>

\* positional_matcher: _ => {name}.push(..) with a positional field,
\* _ => return Err(CliError::Unknown(arg)) without one.
MatchOther ==
    /\ in_loop /\ arm = "other"
    /\ IF is_some(schema.positional)
       THEN push_positional
       ELSE /\ ret' = ReturnErr(CliError("Unknown", <<>>, arg, "None"))
            /\ pc' = "returned"
            /\ pos' = pos + 1
            /\ UNCHANGED posv
    /\ UNCHANGED <<decl, schema, args, flagv, optv, prev, calls>>

\* PushRest that converts every remaining token before it commits any: the
\* values are appended together, or none is and the first error is returned.
PushRest_all_or_nothing ==
    /\ pc = "rest" /\ pos <= Len(args)
    /\ \E values \in {[k \in pos..Len(args) |->
                          positional_value(unwrap(schema.positional), args[k])]} :
       \E bad \in {{k \in pos..Len(args) : ~values[k].ok}} :
           IF bad = {}
           THEN /\ posv' = posv \o [i \in 1..(Len(args) - pos + 1) |-> values[pos + i - 1].v]
                /\ pos' = Len(args) + 1
                /\ UNCHANGED <<pc, ret>>
           ELSE /\ ret' = ReturnErr(values[CHOOSE k \in bad : \A j \in bad : k <= j].err)
                /\ pc' = "returned"
                /\ pos' = (CHOOSE k \in bad : \A j \in bad : k <= j) + 1
                /\ UNCHANGED posv
    /\ UNCHANGED <<decl, schema, args, flagv, optv, prev, calls>>

\* One turn of `for arg in args { {name}.push(..); }` after "--".
PushRest ==
    /\ pc = "rest" /\ pos <= Len(args)
    /\ push_positional
    /\ UNCHANGED <<decl, schema, args, flagv, optv, prev, calls>>

\* The loop is left (input exhausted, or break): Ok(Self { .. }).
Build ==
    /\ \/ pc \in {"loop", "rest"} /\ pos > Len(args)
       \/ pc = "build"
    /\ \E opts \in {options_idents(schema.options, optv, 1, <<>>)} :
       ret' = IF opts.ok THEN ReturnOk(flagv, opts.v, posv) ELSE ReturnErr(opts.err)
    /\ pc' = "returned"
    /\ UNCHANGED <<decl, schema, args, pos, flagv, optv, posv, prev, calls>>

\* The largest number of calls of parse on one input.
MaxCalls == 2

\* A caller that got a result calls parse again with the same input.
ParseAgain ==
    /\ pc = "returned"
    /\ calls < MaxCalls
    /\ prev' = ret
    /\ enter_parse(args)
    /\ UNCHANGED <<decl, schema>>

Next ==
    \/ Derive
    \/ Parse
    \/ MatchHelp
    \/ MatchVersion
    \/ MatchFlag
    \/ MatchOption
    \/ MatchEscape
    \/ MatchOther
    \/ PushRest
    \/ Build

Spec == Init /\ [][Next]_vars

\* The same program, a call of parse never being left unfinished: the
\* thread that called it runs its steps one after the other until the call
\* returns or the process exits.
SpecRun ==
    Init /\ [][Next]_vars
         /\ WF_vars(MatchHelp \/ MatchVersion \/ MatchFlag \/ MatchOption
                        \/ MatchEscape \/ MatchOther \/ PushRest \/ Build)

NextAgain == Next \/ ParseAgain

\* The same program with callers that parse an input more than once.
SpecAgain == Init /\ [][NextAgain]_vars

\* ------------------------------------------------------------- claims

\* Ok(Self { flags.., options.., positional }): the field `name` of the
\* struct that a call returned.
Self_field(self, sch, name) ==
    IF is_some(sch.positional) /\ unwrap(sch.positional).name = name
    THEN self.positional
    ELSE IF \E i \in DOMAIN sch.options : sch.options[i].name = name
    THEN self.options[CHOOSE i \in DOMAIN sch.options : sch.options[i].name = name]
    ELSE self.flags[CHOOSE i \in DOMAIN output_flags(sch) : output_flags(sch)[i].name = name]

\* The call of parse on input `a` for the struct `d` has returned.
Returned(d, a) == pc = "returned" /\ decl = d /\ args = a

\* C1: for a Vec field that is not marked #[positional], every occurrence
\* `--<name> <value>` appends the converted value, and after a successful
\* parse the field holds the supplied values in input order, the `--path`
\* tokens themselves not being stored: with `path: Vec<PathBuf>`,
\* ["--path", "/a", "--path", "/b"] gives path = ["/a", "/b"], and three
\* occurrences give the three paths.
C1_MultiValueKeepsOrder ==
    /\ Returned(<<F_path>>, <<tok_path, tok_slash_a, tok_path, tok_slash_b>>)
        => /\ ret.kind = "Ok"
           /\ Self_field(ret, schema, F_path.name)
                  = <<PathBuf_from(tok_slash_a), PathBuf_from(tok_slash_b)>>
    /\ Returned(<<F_path>>,
                <<tok_path, tok_slash_a, tok_path, tok_slash_b, tok_path, tok_Alice>>)
        => /\ ret.kind = "Ok"
           /\ Self_field(ret, schema, F_path.name)
                  = <<PathBuf_from(tok_slash_a), PathBuf_from(tok_slash_b),
                      PathBuf_from(tok_Alice)>>

\* C2: a struct with a multi-value option `names: Vec<String>` and a separate
\* `#[positional] rest: Vec<String>` is accepted, and
\* ["--names", "Alice", "--names", "Bob", "Carol", "David"] parses to
\* names = ["Alice", "Bob"] and rest = ["Carol", "David"].
C2_MultiValueBesidePositional ==
    decl = <<F_names, F_rest>> /\ pc # "source"
        => /\ schema.ok
           /\ Returned(<<F_names, F_rest>>,
                       <<tok_names, tok_Alice, tok_names, tok_Bob, tok_Carol, tok_David>>)
                => /\ ret.kind = "Ok"
                   /\ Self_field(ret, schema, F_names.name) = <<tok_Alice, tok_Bob>>
                   /\ Self_field(ret, schema, F_rest.name) = <<tok_Carol, tok_David>>

\* C6: a Vec field marked #[required] makes parse fail with MissingRequired
\* when the field ends empty, naming "--names" for the multi-value option and
\* "rest" for the positional field, and succeed with a non-empty field
\* when a value was supplied.
C6_RequiredVecMustNotBeEmpty ==
    /\ Returned(<<F_required_names>>, <<>>)
        => ret.kind = "Err" /\ ret.err = CliError("MissingRequired", tok_names, <<>>, "None")
    /\ Returned(<<F_required_rest>>, <<>>)
        => ret.kind = "Err" /\ ret.err = CliError("MissingRequired", F_rest.name, <<>>, "None")
    /\ Returned(<<F_required_names>>, <<tok_names, tok_Alice>>)
        => ret.kind = "Ok" /\ Self_field(ret, schema, F_names.name) = <<tok_Alice>>
    /\ Returned(<<F_required_rest>>, <<tok_Bob>>)
        => ret.kind = "Ok" /\ Self_field(ret, schema, F_rest.name) = <<tok_Bob>>

\* The test's struct: an optional text option and the positional field.
OptStrRest == <<F_opt_str, F_rest>>

\* C3: with a positional field, once `--` has been seen no later token is
\* matched as a flag, option, help or version spelling: every later token is
\* converted and appended to the positional field in input order, `--` itself
\* is not appended, and the unmatched tokens seen before `--` stay ahead of
\* them; [Alice, --, --opt-str, --name, Bob] gives opt_str = None and
\* rest = [Alice, --opt-str, --name, Bob].
C3_EscapeEndsMatching ==
    /\ [](pc = "rest" =>
            \E e \in 1..(pos - 1) :
                /\ args[e] = tok_escape
                /\ Len(posv) >= pos - 1 - e
                /\ \A k \in 1..(pos - 1 - e) :
                       posv[Len(posv) - (pos - 1 - e) + k]
                           = positional_value(unwrap(schema.positional), args[e + k]).v)
    /\ [][pc = "loop" /\ pc' = "rest" => args[pos] = tok_escape /\ posv' = posv]_vars
    /\ [][pc = "rest" =>
            /\ flagv' = flagv /\ optv' = optv
            /\ pc' \in {"rest", "returned"}
            /\ ret'.kind # "Exit"
            /\ pc' = "rest" => /\ pos' = pos + 1
                               /\ Len(posv') = Len(posv) + 1
                               /\ SubSeq(posv', 1, Len(posv)) = posv
            /\ pc' = "returned" /\ ret'.kind = "Ok" =>
                   pos > Len(args) /\ ret'.positional = posv]_vars
    /\ [](Returned(OptStrRest, <<tok_Alice, tok_escape, tok_opt_str, tok_name, tok_Bob>>)
            => /\ ret.kind = "Ok"
               /\ Self_field(ret, schema, F_opt_str.name) = None
               /\ Self_field(ret, schema, F_rest.name)
                      = <<tok_Alice, tok_opt_str, tok_name, tok_Bob>>)

\* C3: a help spelling that follows `--` has been appended behind an earlier
\* unmatched token.
C3_Witness ==
    /\ pc = "rest" /\ pos >= 4
    /\ args[pos - 1] = tok_help
    /\ Len(posv) >= 2

\* C4 as stated: [Alice, --, --opt-str, --name, Bob] gives opt_str = None and
\* rest = [--opt-str, --name, Bob].
C4_RestDropsAlice ==
    Returned(OptStrRest, <<tok_Alice, tok_escape, tok_opt_str, tok_name, tok_Bob>>)
        => /\ ret.kind = "Ok"
           /\ ret.options = <<None>>
           /\ ret.positional = <<tok_opt_str, tok_name, tok_Bob>>

\* C4: for an optional text option opt_str and a positional field rest,
\* [Alice, --, --opt-str, --name, Bob] gives opt_str = None and
\* rest = [Alice, --opt-str, --name, Bob]: the token before `--` is kept.
C4_RestKeepsAlice ==
    Returned(OptStrRest, <<tok_Alice, tok_escape, tok_opt_str, tok_name, tok_Bob>>)
        => /\ ret.kind = "Ok"
           /\ ret.options = <<None>>
           /\ ret.positional = <<tok_Alice, tok_opt_str, tok_name, tok_Bob>>

\* C4: that parse has returned the four tokens.
C4_Witness ==
    /\ Returned(OptStrRest, <<tok_Alice, tok_escape, tok_opt_str, tok_name, tok_Bob>>)
    /\ ret.kind = "Ok"
    /\ Len(ret.positional) = 4

\* C5: without `--`, an option name consumes the token that directly follows
\* it as its value even when that token looks like a flag or an option, and
\* the consumed token is not appended to the positional field:
\* [Alice, --opt-str, --name, Bob] gives opt_str = Some("--name") and
\* rest = [Alice, Bob]; [Alice, --name, Bob] gives opt_str = None and
\* rest = [Alice, --name, Bob].
C5_OptionConsumesNextToken ==
    /\ [][in_loop /\ arm = "option" /\ pos < Len(args) =>
            /\ pos' = pos + 2
            /\ posv' = posv /\ flagv' = flagv
            /\ pc' \in {"loop", "returned"}
            /\ pc' = "loop" =>
                 /\ ret' = ret
                 /\ \A i \in DOMAIN optv : i # option_hit => optv'[i] = optv[i]
                 /\ schema.options[option_hit].ty_help \in {"String", "OsString"} =>
                        optv'[option_hit] = Some(args[pos + 1])
                 /\ schema.options[option_hit].ty_help = "Path" =>
                        optv'[option_hit] = Some(PathBuf_from(args[pos + 1]))
            /\ pc' = "returned" => ret'.kind = "Err" /\ ret'.err.variant # "Unknown"]_vars
    /\ [](Returned(OptStrRest, <<tok_Alice, tok_opt_str, tok_name, tok_Bob>>)
            => /\ ret.kind = "Ok"
               /\ Self_field(ret, schema, F_opt_str.name) = Some(tok_name)
               /\ Self_field(ret, schema, F_rest.name) = <<tok_Alice, tok_Bob>>)
    /\ [](Returned(OptStrRest, <<tok_Alice, tok_name, tok_Bob>>)
            => /\ ret.kind = "Ok"
               /\ Self_field(ret, schema, F_opt_str.name) = None
               /\ Self_field(ret, schema, F_rest.name) = <<tok_Alice, tok_name, tok_Bob>>)

\* C5: an option has taken the help spelling as its value.
C5_Witness ==
    /\ pc = "loop" /\ pos = 3
    /\ args[1] = tok_opt_str /\ args[2] = tok_help
    /\ decl = OptStrRest
    /\ optv = <<Some(tok_help)>>
    /\ posv = <<>>

\* The token is neither `--` nor a help, version, flag or option spelling of
\* the schema.
unmatched(tok) ==
    LET no_arm(text) ==
            /\ text \notin {Some(tok_help), Some(tok_h), Some(tok_version), Some(tok_V)}
            /\ text # Some(tok_escape)
            /\ first_match(output_flags(schema), text) = 0
            /\ first_match(schema.options, text) = 0
    IN  no_arm(to_str(tok))

\* C7 as stated: when the schema has no positional field, the first token of
\* the input that is not `--` and matches no help, version, flag or option
\* spelling makes parse return Unknown carrying exactly that token; with a
\* positional field Unknown is never returned.
C7_FirstUnmatchedTokenIsUnknown ==
    pc = "returned" =>
        /\ ~is_some(schema.positional) =>
             \A i \in DOMAIN args :
                 unmatched(args[i]) /\ (\A j \in 1..(i - 1) : ~unmatched(args[j]))
                     => ret = ReturnErr(CliError("Unknown", <<>>, args[i], "None"))
        /\ is_some(schema.positional) => ret.err.variant # "Unknown"

\* C7: when the schema has no positional field, a token that the matching
\* loop examines (it was not taken as the value of an option and no `--`
\* came before it) and that is not `--` and matches no help, version, flag or
\* option spelling makes parse return Unknown carrying exactly that token; a
\* token taken as an option's value or following `--` never does; with a
\* positional field Unknown is never returned.
C7_ExaminedUnmatchedTokenIsUnknown ==
    /\ [][pc = "loop" /\ pos <= Len(args) /\ ~is_some(schema.positional)
              /\ unmatched(args[pos])
            => pc' = "returned" /\ ret' = ReturnErr(CliError("Unknown", <<>>, args[pos], "None"))]_vars
    /\ [][ret'.err.variant = "Unknown" /\ ret.err.variant # "Unknown"
            => pc = "loop" /\ pos <= Len(args) /\ unmatched(args[pos])
                 /\ ret'.err.raw = args[pos]]_vars
    /\ [](pc \in {"loop", "rest", "build", "returned", "exited"}
              /\ is_some(schema.positional)
            => ret.err.variant # "Unknown")
    /\ [](pc = "build" => ret = Pending /\ args[pos - 1] = tok_escape)

\* C7: a parse without a positional field has returned Unknown with a token
\* that is not UTF-8, after an option took an unmatched token as its value.
C7_Witness ==
    /\ pc = "returned" /\ decl = <<F_opt_str>>
    /\ args = <<tok_opt_str, tok_Alice, tok_bad>>
    /\ ret = ReturnErr(CliError("Unknown", <<>>, tok_bad, "None"))

\* The short names claimed in an accepted schema, in declaration order.
short_names(sch) ==
    LET claimed == SelectSeq(sch.flags \o sch.options, LAMBDA a : is_some(a.short))
    IN  [i \in DOMAIN claimed |-> unwrap(claimed[i].short)]

\* C8: the expansion is rejected whenever two arguments end up with the same
\* short name, -h (help) and -V (version) counting as taken; so in every
\* accepted schema the short names of all flags and options, the two
\* provided ones included, are pairwise distinct.
C8_ShortNamesDistinct ==
    /\ pc \notin {"source", "rejected"} =>
         /\ SubSeq(short_names(schema), 1, 2) = <<"h", "V">>
         /\ \A i, j \in DOMAIN short_names(schema) :
                short_names(schema)[i] = short_names(schema)[j] => i = j
    /\ pc # "source" =>
         \A parsed \in {ArgumentStruct_parse(decl)} :
             parsed.ok =>
                 \A names \in {short_names([flags |-> builtin_flags \o parsed.flags,
                                            options |-> parsed.options])} :
                     (\E i, j \in DOMAIN names : i # j /\ names[i] = names[j])
                         => /\ pc = "rejected"
                            /\ schema.msg = "Only one short arg is allowed."

\* C8: a struct with two options whose inferred short name is -o has been
\* rejected, the error spanning the later field.
C8_Witness ==
    /\ pc = "rejected"
    /\ decl = <<F_opt_str, F_output>>
    /\ schema.msg = "Only one short arg is allowed."
    /\ schema.span = decl[2].name

C10_HelpAndVersionExit ==
    /\ [][pc = "loop" /\ pos <= Len(args) /\ args[pos] \in {tok_help, tok_h}
            => pc' = "exited" /\ ret'.kind = "Exit" /\ ret'.printed = "HELP"
                 /\ ret'.code = 0]_vars
    /\ [][pc = "loop" /\ pos <= Len(args) /\ args[pos] \in {tok_version, tok_V}
            => pc' = "exited" /\ ret'.kind = "Exit" /\ ret'.printed = "VERSION"
                 /\ ret'.code = 0]_vars
    /\ [][pc # "exited"]_vars
    /\ [](pc = "exited" <=> ret.kind = "Exit")
    /\ [](pc = "exited" => ret.err = NoError /\ ret.code = 0)

\* C10: the process has exited on --help with tokens left unread and with
\* the required --username never given.
C10_Witness ==
    /\ pc = "exited" /\ decl = FullDeriveArgs
    /\ ret.printed = "HELP"
    /\ args[pos - 1] = tok_help
    /\ pos <= Len(args)

\* C11: a token that matches an option's long or short spelling consumes
\* exactly the next token as the option's value; when it is the last token
\* of the input, parse fails with MissingValue naming the option as it was
\* typed, and the missing value changes no option and no positional value.
C11_MissingValueAtEnd ==
    /\ [][in_loop /\ arm = "option" /\ pos = Len(args) =>
            /\ pc' = "returned"
            /\ ret' = ReturnErr(CliError("MissingValue", args[pos], <<>>, "None"))
            /\ optv' = optv /\ posv' = posv /\ flagv' = flagv]_vars
    /\ [][in_loop /\ arm = "option" /\ pos < Len(args) =>
            /\ pos' = pos + 2
            /\ ret'.err.variant # "MissingValue"]_vars
    /\ [](pc = "returned" /\ ret.err.variant = "MissingValue" =>
            /\ pos = Len(args) + 1
            /\ ret.err.name = args[Len(args)]
            /\ \E i \in DOMAIN schema.options :
                   matches(schema.options[i], Some(ret.err.name)))

\* C11: the option name came last, after a positional value had been stored.
C11_Witness ==
    /\ Returned(OptStrRest, <<tok_Alice, tok_opt_str>>)
    /\ ret = ReturnErr(CliError("MissingValue", tok_opt_str, <<>>, "None"))
    /\ posv = <<tok_Alice>>
    /\ optv = <<None>>

\* C12: when an option's value token is present but cannot be converted,
\* parse fails with the error of the conversion, carrying the option name as
\* typed, the unchanged raw token and the cause: a token that is not UTF-8
\* given to a text or integer option gives ParseStrError(name, raw), a UTF-8
\* token that is no integer of the option's type gives
\* ParseIntError(name, raw, cause), and path and OsString options take every
\* token that is present.
C12_ConversionErrors ==
    /\ [][in_loop /\ arm = "option" /\ pos < Len(args)
              /\ schema.options[option_hit].ty_help \in {"String", "Number"}
              /\ BadByte \in Range(args[pos + 1])
            => /\ pc' = "returned"
               /\ ret' = ReturnErr(CliError("ParseStrError", args[pos], args[pos + 1], "None"))
               /\ optv' = optv]_vars
    /\ [][in_loop /\ arm = "option" /\ pos < Len(args)
              /\ schema.options[option_hit].ty = "i32"
              /\ args[pos + 1] \in {tok_Alice, tok_empty, tok_big, tok_name}
            => /\ pc' = "returned"
               /\ ret' = ReturnErr(CliError("ParseIntError", args[pos], args[pos + 1],
                             CASE args[pos + 1] = tok_empty -> "Empty"
                               [] args[pos + 1] = tok_big -> "PosOverflow"
                               [] OTHER -> "InvalidDigit"))
               /\ optv' = optv]_vars
    /\ [][in_loop /\ arm = "option" /\ pos < Len(args)
              /\ schema.options[option_hit].ty = "i32" /\ args[pos + 1] = tok_7
            => pc' = "loop" /\ optv'[option_hit] \in {7, Some(7)}]_vars
    /\ [][in_loop /\ arm = "option" /\ pos < Len(args)
              /\ schema.options[option_hit].ty_help \in {"Path", "OsString"}
            => /\ pc' = "loop" /\ ret' = ret
               /\ optv'[option_hit]
                      = Some(IF schema.options[option_hit].ty_help = "Path"
                             THEN PathBuf_from(args[pos + 1]) ELSE args[pos + 1])]_vars
    /\ [](pc = "returned" /\ ret.err.variant \in {"ParseStrError", "ParseIntError"}
            => /\ ret.err.raw = args[pos - 1]
               /\ (ret.err.variant = "ParseIntError") = (ret.err.cause # "None"))

\* C12: an integer option was given 2^32 and parse returned the overflow.
C12_Witness ==
    /\ Returned(<<F_width>>, <<tok_w, tok_big>>)
    /\ ret = ReturnErr(CliError("ParseIntError", tok_w, tok_big, "PosOverflow"))

\* The options of the schema that must be set: neither Option-typed nor
\* given a default, and still unset in `vals`.
missing_required(sch, vals) ==
    {i \in DOMAIN sch.options :
        /\ sch.options[i].ty \in required_paths \cup required_os_strings
                                    \cup required_numbers \cup {"String"}
        /\ ~is_some(sch.options[i].default)
        /\ vals[i] = None}

\* C13: after the input is exhausted, every scalar option that is neither
\* Option-typed nor given a default must have been set, otherwise parse
\* fails with MissingRequired naming the first such option as --<long-name>;
\* an Option-typed option and an option with a default never give
\* MissingRequired.
C13_RequiredOptionsMustBeSet ==
    /\ [][(pc \in {"loop", "rest", "build"} /\ pc' = "returned"
              /\ (pc = "build" \/ pos > Len(args)))
            => (\A missing \in {missing_required(schema, optv)} :
                 /\ missing = {} => ret'.kind = "Ok"
                 /\ missing # {} =>
                      (\E i \in missing :
                          /\ \A j \in missing : i <= j
                          /\ ret' = ReturnErr(CliError("MissingRequired",
                                        <<"-", "-">> \o schema.options[i].name,
                                        <<>>, "None"))))]_vars
    /\ [](pc = "returned" /\ ret.err.variant = "MissingRequired" =>
            \E i \in missing_required(schema, optv) :
                ret.err.name = <<"-", "-">> \o schema.options[i].name)
    /\ [](Returned(<<F_username>>, <<>>) =>
            ret = ReturnErr(CliError("MissingRequired", tok_username, <<>>, "None")))
    /\ [](Returned(<<F_opt_str, F_width>>, <<>>) =>
            ret.kind = "Ok" /\ ret.options = <<None, 42>>)

\* C13: the struct of examples/full-derive was parsed without --username.
C13_Witness ==
    /\ Returned(FullDeriveArgs, <<tok_w, tok_7>>)
    /\ ret = ReturnErr(CliError("MissingRequired", tok_username, <<>>, "None"))
    /\ optv[3] = 7

\* No token of the input is the long or the short spelling of `a`.
never_given(a) == \A i \in DOMAIN args : ~matches(a, to_str(args[i]))

C15_EscapeWithoutPositionalStops ==
    /\ [][pc = "loop" /\ pos <= Len(args) /\ args[pos] = tok_escape
              /\ ~is_some(schema.positional)
            => /\ pc' = "build" /\ pos' = pos + 1
               /\ flagv' = flagv /\ optv' = optv /\ posv' = posv /\ ret' = ret]_vars
    /\ [][pc = "build"
            => /\ pc' = "returned" /\ pos' = pos
               /\ flagv' = flagv /\ optv' = optv /\ posv' = posv
               /\ \/ ret' = ReturnOk(flagv, ret'.options, <<>>)
                       /\ missing_required(schema, optv) = {}
                       /\ \A i \in DOMAIN optv :
                              ret'.options[i]
                                  = IF \/ is_some(schema.options[i].default)
                                       \/ schema.options[i].optional
                                    THEN optv[i] ELSE unwrap(optv[i])
                  \/ ret'.err.variant = "MissingRequired"
                       /\ missing_required(schema, optv) # {}]_vars
    /\ [](pc = "returned" /\ ret.kind = "Ok" /\ pos <= Len(args)
            => ~is_some(schema.positional) /\ args[pos - 1] = tok_escape)
    /\ [](decl = <<F_opt_str, F_verbose>> /\ pc \in {"build", "returned", "exited"}
              /\ Len(args) >= 2 /\ args[1] = tok_v /\ args[2] = tok_escape
            => /\ pc # "exited" /\ pos = 3
               /\ pc = "returned" => ret = ReturnOk(<<TRUE>>, <<None>>, <<>>))

\* C15: `--` came first and a help spelling and an option name without a
\* value followed it.
C15_Witness ==
    /\ Returned(<<F_opt_str>>, <<tok_escape, tok_help, tok_opt_str>>)
    /\ ret = ReturnOk(<<>>, <<None>>, <<>>)
    /\ pos = 2

\* The arguments of an accepted schema whose field carries neither #[short]
\* nor #[long]: the struct's own flags and options.
inferred_args ==
    {a \in Range(output_flags(schema)) \cup Range(schema.options) :
        \E k \in DOMAIN decl :
            /\ decl[k].name = a.name
            /\ \A n \in DOMAIN decl[k].attrs : decl[k].attrs[n].name \notin {"short", "long"}}

\* C16 as stated: the short name inferred for a field without #[short] or
\* #[long] is the first ASCII-alphabetic character of the field identifier
\* made lowercase.
C16_InferredShortIsLowercased ==
    pc \notin {"source", "rejected"} =>
        \A a \in inferred_args :
            \E k \in DOMAIN a.name :
                /\ is_ascii_alphabetic(a.name[k])
                /\ \A j \in 1..(k - 1) : ~is_ascii_alphabetic(a.name[j])
                /\ a.short = Some(to_ascii_lowercase(a.name[k]))

\* C16: the short name inferred for a field without #[short] or #[long] is
\* the first ASCII-alphabetic character of the field identifier, its case
\* kept: `Name` is matched by -N and not by -n, `_2fast` by -f, and `Verify`
\* claims the -V of the provided version flag and is rejected.
C16_InferredShortKeepsCase ==
    /\ pc \notin {"source", "rejected"} =>
         \A a \in inferred_args :
             \E k \in DOMAIN a.name :
                 /\ is_ascii_alphabetic(a.name[k])
                 /\ \A j \in 1..(k - 1) : ~is_ascii_alphabetic(a.name[j])
                 /\ a.short = Some(a.name[k])
    /\ Returned(<<F_Name>>, <<tok_N, tok_Alice>>) => ret = ReturnOk(<<>>, <<Some(tok_Alice)>>, <<>>)
    /\ Returned(<<F_Name>>, <<tok_n, tok_Alice>>) =>
         ret = ReturnErr(CliError("Unknown", <<>>, tok_n, "None"))
    /\ Returned(<<F_2fast>>, <<tok_f>>) => ret = ReturnOk(<<TRUE>>, <<>>, <<>>)
    /\ decl = <<F_Verify>> /\ pc # "source" =>
         pc = "rejected" /\ schema.msg = "Only one short arg is allowed."

\* C16: -N has set the option of the field `Name`.
C16_Witness ==
    /\ Returned(<<F_Name>>, <<tok_N, tok_Alice>>)
    /\ ret.kind = "Ok"
    /\ schema.options[1].short = Some("N")

\* C17: a field attribute #[short('N')] holding a one-character char literal
\* is accepted and makes N the field's short name in place of the inferred
\* one, so that -N matches the field.
C17_ManualShortNameIsAccepted ==
    decl = <<F_short_N>> /\ pc # "source" =>
        /\ schema.ok
        /\ schema.options[1].short = Some("N")
        /\ Returned(<<F_short_N>>, <<tok_N, tok_Alice>>) =>
               ret = ReturnOk(<<>>, <<Some(tok_Alice)>>, <<>>)

\* The type spellings that resolve to the positional field.
positional_spellings ==
    positional_paths \cup positional_os_strings \cup positional_numbers \cup {"Vec<String>"}

C19_DefaultOnVecIsRejected ==
    /\ decl = <<F_default_nums>> /\ pc # "source" => pc = "rejected" /\ ~schema.ok
    /\ decl = <<F_default_nums>> => ret = Pending /\ calls = 0

\* ---------------------------------------- the classification of field types

\* The spellings of the tables of ArgOption::parse and ArgFlag::parse.
ListedSpellings ==
    {"bool", "String", "Option<String>", "Vec<String>"}
        \cup required_paths \cup required_os_strings \cup required_numbers
        \cup optional_paths \cup optional_os_strings \cup optional_numbers
        \cup positional_paths \cup positional_os_strings \cup positional_numbers

\* #[derive(OnlyArgs)] expands on a struct of one field of some type: a
\* spelling of the tables or one of no table (wrappers that are not listed,
\* nested wrappers, wrapped bool, other qualifiers and other capitalisation),
\* under a field name whose inferred short name collides with nothing.
DeriveType ==
    /\ pc = "source"
    /\ \E ty \in ListedSpellings \cup
                  {"Box<String>", "Option<Option<u8>>", "Vec<Option<u8>>", "Option<Vec<u8>>",
                   "Vec<Vec<u8>>", "Option<bool>", "Vec<bool>", "std::string::String",
                   "Option<std::string::String>", "std::primitive::bool", "str", "char",
                   "u256", "Bool", "string", "Rc<PathBuf>", "Option<Box<u8>>"},
          name \in {<<"v", "a", "l", "u", "e">>, <<"i", "t", "e", "m">>} :
       \E d \in {<<Field(name, ty, <<>>)>>} :
       \E expansion \in {derive_parser(d)} :
           /\ decl' = d
           /\ schema' = expansion
           /\ pc' = IF expansion.ok THEN "ready" ELSE "rejected"
    /\ UNCHANGED <<args, pos, flagv, optv, posv, ret, prev, calls>>

\* The derive macro alone, on every type spelling in scope.
SpecTypes == Init /\ [][DeriveType]_vars

\* C20: the classification of a field type accepts only the exact spellings
\* of the tables (bool, the integer and float widths, String, OsString and
\* PathBuf with the listed qualifiers, and Option<X> or Vec<X> of those);
\* every other spelling, such as Box<String>, Option<Option<u8>>,
\* Vec<Option<u8>>, Option<bool> or Vec<bool>, gives the classification
\* error and no schema.
C20_OnlyListedSpellings ==
    pc # "source" =>
        /\ schema.ok <=> decl[1].ty \in ListedSpellings
        /\ decl[1].ty \in {"Box<String>", "Option<Option<u8>>", "Vec<Option<u8>>",
                           "Option<bool>", "Vec<bool>"} => ~schema.ok
        /\ ~schema.ok =>
               /\ pc = "rejected"
               /\ schema.msg = "Expected bool, PathBuf, String, OsString, integer or float"
        /\ schema.ok =>
               /\ Len(schema.flags) = 3 <=> decl[1].ty = "bool"
               /\ is_some(schema.positional) <=> decl[1].ty \in positional_spellings
               /\ Len(schema.options) = 1 =>
                      /\ schema.options[1].ty = decl[1].ty
                      /\ schema.options[1].ty_help \in {"Path", "OsString", "String", "Number"}
                      /\ schema.options[1].optional
                             <=> decl[1].ty \in optional_paths \cup optional_os_strings
                                     \cup optional_numbers \cup {"Option<String>"}

\* C20: a field of type Option<Option<u8>> has been rejected.
C20_Witness ==
    /\ pc = "rejected"
    /\ decl[1].ty = "Option<Option<u8>>"
    /\ ~schema.ok

\* ------------------------------------------------- the rendered help text

\* Help text is a sequence of pieces of text; a doc line is one such
\* sequence.  #[doc = "text"]: the attribute of a `/// text` comment.
AttrDoc(text) == [name |-> "doc", arg |-> [tok |-> "EqString", text |-> <<text>>]]

\* fn get_doc_comment: the texts of the doc attributes, in order.
get_doc_comment(attrs) ==
    LET docs == SelectSeq(attrs, LAMBDA a : a.name = "doc" /\ a.arg.tok = "EqString")
    IN  [i \in DOMAIN docs |-> docs[i].arg.text]

\* line.push_str(suffix) on the last doc line, or doc.push(bare) when there
\* is no doc line.
push_doc_suffix(doc, suffix, bare) ==
    IF Len(doc) > 0
    THEN [doc EXCEPT ![Len(doc)] = @ \o suffix]
    ELSE <<bare>>

\* Argument::parse, the doc lines it leaves on an option `opt` parsed from
\* `field`: the doc comment with the default or the required mark appended.
option_doc(field, opt) ==
    IF is_some(opt.default)
    THEN push_doc_suffix(get_doc_comment(field.attrs),
                         <<" [default: ">> \o unwrap(opt.default) \o <<"]">>,
                         <<"[default: ">> \o unwrap(opt.default) \o <<"]">>)
    ELSE IF ~opt.optional
    THEN push_doc_suffix(get_doc_comment(field.attrs), <<" [required]">>, <<"[required]">>)
    ELSE get_doc_comment(field.attrs)

\* The doc lines of an option of the schema of the struct `d`: those of the
\* field the option was parsed from.
doc_of(d, opt) == option_doc(d[CHOOSE k \in DOMAIN d : d[k].name = opt.name], opt)

\* str::len of the three texts of ArgType::as_str
ArgType_len(ty_help) == IF ty_help = "Path" THEN 5 ELSE 7

SHORT_PAD == 3

LONG_PAD == 6

\* fn get_max_width over the options of a schema.
get_max_width(opts) ==
    LET width(o) == Len(o.name) + ArgType_len(o.ty_help)
                        + (IF is_some(o.short) THEN SHORT_PAD ELSE 0)
        widths == {width(opts[i]) : i \in DOMAIN opts}
    IN  IF widths = {} THEN 0 ELSE CHOOSE w \in widths : \A v \in widths : v <= w

\* doc.join(sep) for doc lines and a separator that are sequences of pieces.
RECURSIVE join(_, _, _)
join(doc, sep, i) ==
    IF i > Len(doc) THEN <<>>
    ELSE IF i = Len(doc) THEN doc[i]
    ELSE doc[i] \o sep \o join(doc, sep, i + 1)

\* fn to_help for an option: "  -{ch} --{name}{ty:<width$}  {help}\n",
\* {ty} being ArgType::as_str.
to_help(d, opt, max_width) ==
    LET spaces(n) == [i \in 1..n |-> " "]
        as_str == CASE opt.ty_help = "Number" -> " NUMBER"
                    [] opt.ty_help \in {"OsString", "String"} -> " STRING"
                    [] opt.ty_help = "Path" -> " PATH"
        help == join(doc_of(d, opt), <<"\n">> \o spaces(max_width + LONG_PAD), 1)
        width == max_width - Len(opt.name) - (IF is_some(opt.short) THEN SHORT_PAD ELSE 0)
        ty == <<as_str>> \o spaces(width - ArgType_len(opt.ty_help))
        head == IF is_some(opt.short)
                THEN <<"  -", unwrap(opt.short), " --">>
                ELSE <<"  --">>
    IN  head \o to_arg_name(opt.name) \o ty \o <<"  ">> \o help \o <<"\n">>

\* #[derive(OnlyArgs)] expands on a documented struct: one field `value`,
\* alone or after `/// Your username.` `username: String`. The field has one
\* spelling of every table; a doc comment of one line, of two lines or none;
\* and no default, #[default(42)] or #[default("x")].
DeriveHelp ==
    /\ pc = "source"
    /\ \E ty \in {"String", "Option<String>", "Vec<String>", "PathBuf", "Option<PathBuf>",
                  "Vec<PathBuf>", "OsString", "Option<OsString>", "Vec<OsString>", "i32",
                  "Option<i32>", "Vec<i32>", "f64", "bool"},
          docs \in {<<>>, <<AttrDoc("Your value.")>>,
                    <<AttrDoc("Your value."), AttrDoc("Second line.")>>},
          default \in {<<>>, <<AttrLit("default", <<"4", "2">>)>>,
                       <<AttrLit("default", <<"\"", "x", "\"">>)>>},
          before \in {<<>>, <<[F_username EXCEPT !.attrs = <<AttrDoc("Your username.")>>]>>} :
       \E d \in {before \o <<Field(<<"v", "a", "l", "u", "e">>, ty, docs \o default)>>} :
       \E expansion \in {derive_parser(d)} :
           /\ decl' = d
           /\ schema' = expansion
           /\ pc' = IF expansion.ok THEN "ready" ELSE "rejected"
    /\ UNCHANGED <<args, pos, flagv, optv, posv, ret, prev, calls>>

\* The derive macro alone, on the documented structs.
SpecHelp == Init /\ [][DeriveHelp]_vars

\* The doc line `line` ends with a default mark: "[default: " .. "]".
carries_default(line) ==
    \E k \in DOMAIN line :
        /\ line[k] \in {" [default: ", "[default: "}
        /\ line[Len(line)] = "]"

\* The last doc line `line` ends with the required mark.
carries_required(line) ==
    Len(line) > 0 /\ line[Len(line)] \in {" [required]", "[required]"}

\* The marks on the last line of `doc`, the doc lines of the option `opt`:
\* the default mark with a default, else the required mark on a mandatory
\* option, else none; none on an Option-typed or Vec field.
doc_marks(doc, opt) ==
    LET last == IF Len(doc) > 0 THEN doc[Len(doc)] ELSE <<>>
    IN  /\ ~(carries_default(last) /\ carries_required(last))
        /\ IF is_some(opt.default)
           THEN /\ carries_default(last) /\ ~carries_required(last)
                /\ SubSeq(last, Len(last) - Len(unwrap(opt.default)), Len(last))
                       = unwrap(opt.default) \o <<"]">>
           ELSE IF ~opt.optional
           THEN carries_required(last) /\ ~carries_default(last)
           ELSE ~carries_required(last) /\ ~carries_default(last)
        /\ opt.ty \in optional_paths \cup optional_os_strings \cup optional_numbers
                          \cup {"Option<String>"} \cup positional_spellings
               => ~carries_required(last) /\ ~carries_default(last)

\* C21: in the rendered help the last doc line of each option carries exactly
\* one suffix: [default: <value>] if the option has a default literal,
\* otherwise [required] if the option is mandatory, otherwise none; no
\* option carries both, and an Option-typed or Vec field carries neither.
C21_HelpSuffix ==
    pc = "ready" =>
        /\ \A i \in DOMAIN schema.options :
               /\ doc_marks(doc_of(decl, schema.options[i]), schema.options[i])
               /\ \E h \in {to_help(decl, schema.options[i], get_max_width(schema.options))} :
                  \E doc \in {doc_of(decl, schema.options[i])} :
                      Len(doc) > 0 =>
                          SubSeq(h, Len(h) - Len(doc[Len(doc)]), Len(h))
                              = doc[Len(doc)] \o <<"\n">>
        /\ is_some(schema.positional) =>
               doc_marks(doc_of(decl, unwrap(schema.positional)),
                                 unwrap(schema.positional))

\* ------------------------------------------------------ numeric fields

\* C22: the value of a numeric field is converted with the parser of the
\* field's own type: an integer field takes only an integer of its width and
\* signedness and answers anything else with ParseIntError, never a
\* truncated, wrapped or clamped value; a float field (f32/f64) is converted
\* by floating-point parsing, so a struct with a float field has a parser and
\* its conversion is parse_float.
C22_NumbersUseTheirOwnParser ==
    /\ pc \notin {"source", "rejected"} =>
           \A i \in DOMAIN schema.options :
               schema.options[i].ty_help = "Number" =>
                   number_parser(schema.options[i].ty_help)
                       = (IF schema.options[i].ty \in float_spellings
                          THEN "parse_float" ELSE "parse_int")
    /\ decl = <<F_ratio>> /\ pc # "source" => pc \notin {"rejected", "ill_typed"}
    /\ Returned(<<F_width>>, <<tok_w, tok_7>>) => ret = ReturnOk(<<>>, <<7>>, <<>>)
    /\ Returned(<<F_width>>, <<tok_w, tok_big>>) =>
           ret = ReturnErr(CliError("ParseIntError", tok_w, tok_big, "PosOverflow"))
    /\ Returned(<<F_width>>, <<tok_w, tok_Alice>>) =>
           ret = ReturnErr(CliError("ParseIntError", tok_w, tok_Alice, "InvalidDigit"))
    /\ Returned(<<F_width>>, <<tok_w, tok_empty>>) =>
           ret = ReturnErr(CliError("ParseIntError", tok_w, tok_empty, "Empty"))
    /\ pc = "returned" /\ ret.kind = "Ok" =>
           \A i \in DOMAIN schema.options :
               schema.options[i].ty = "i32" =>
                   ret.options[i] \in (-2147483647 - 1)..2147483647

\* ------------------------------------------- the order of short-name claims

\* The place of the field `name` in the struct `d`, 0 for a provided flag.
declared_at(d, name) ==
    IF \E k \in DOMAIN d : d[k].name = name
    THEN CHOOSE k \in DOMAIN d : d[k].name = name
    ELSE 0

\* The expansion of the struct was rejected for a short name that two of its
\* own fields share.
user_collision ==
    /\ pc = "rejected"
    /\ schema.msg = "Only one short arg is allowed."
    /\ declared_at(decl, schema.other) # 0

\* C23: short names are claimed first come, first served in the order the
\* fields are declared, after the two provided flags: when two fields of the
\* struct collide the error is on the field declared later and names the
\* field declared earlier, whether the two are flags or options.
C23_CollisionBlamesLaterField ==
    user_collision =>
        /\ declared_at(decl, schema.span) # 0
        /\ declared_at(decl, schema.other) < declared_at(decl, schema.span)

\* C23: short names are claimed by the two provided flags, then by the
\* flags of the struct in the order declared, then by its options in the
\* order declared: when two fields collide the error is on the one that
\* comes later in that order and names the earlier one, so between two flags
\* or between two options it is on the field declared later, and between a
\* flag and an option it is always on the option, wherever it is declared.
C23_CollisionBlamesLaterClaim ==
    user_collision =>
        \E j, k \in DOMAIN decl :
            /\ j # k
            /\ decl[j].name = schema.other /\ decl[k].name = schema.span
            /\ infer_short(decl[j].name) = infer_short(decl[k].name)
            /\ (decl[j].ty = "bool") = (decl[k].ty = "bool") => j < k
            /\ (decl[j].ty = "bool") # (decl[k].ty = "bool") =>
                   decl[j].ty = "bool" /\ decl[k].ty # "bool"
            /\ \A m \in DOMAIN decl :
                   /\ m # j
                   /\ infer_short(decl[m].name) = infer_short(decl[j].name)
                   /\ (decl[m].ty = "bool") = (decl[j].ty = "bool")
                   => j < m

\* C23: the struct with `output: Option<PathBuf>` before `only: bool` has been
\* rejected at `output`, the field declared first, naming `only`.
C23_Witness ==
    /\ pc = "rejected" /\ decl = <<F_output, F_only>>
    /\ schema.msg = "Only one short arg is allowed."
    /\ schema.span = F_output.name
    /\ schema.other = F_only.name

\* ------------------------------------------------- the tokens after `--`

\* The conversion of the token at place k for the positional field.
rest_value(k) == positional_value(unwrap(schema.positional), args[k])

\* C24: after `--` with a positional field all remaining tokens are
\* converted before any of them is committed: no value is appended to the
\* collection unless every remaining token converts, so when a token fails
\* the collection holds none of the tokens that followed `--`; and the error
\* returned is that of the first failing token.
C24_RestIsAllOrNothing ==
    [][pc = "rest" /\ pos <= Len(args) =>
           /\ posv' # posv => (\A k \in pos..Len(args) : rest_value(k).ok)
           /\ ~rest_value(pos).ok => ret' = ReturnErr(rest_value(pos).err)]_vars

\* C24: after `--` with a positional field the remaining tokens are
\* converted and committed one at a time in input order: a token that
\* converts is appended at once, whatever follows it, and the first token
\* that fails ends the call with its error, the collection then holding the
\* values of all the tokens between `--` and the failing one.
C24_RestCommitsOneByOne ==
    [][pc = "rest" /\ pos <= Len(args) =>
           /\ (\E e \in 1..(pos - 1) :
                  /\ args[e] = tok_escape
                  /\ Len(posv) >= pos - e - 1
                  /\ \A k \in (e + 1)..(pos - 1) :
                         /\ rest_value(k).ok
                         /\ posv[Len(posv) - (pos - 1 - k)] = rest_value(k).v)
           /\ IF rest_value(pos).ok
              THEN posv' = Append(posv, rest_value(pos).v) /\ pc' = "rest" /\ ret' = ret
              ELSE /\ posv' = posv
                   /\ pc' = "returned"
                   /\ ret' = ReturnErr(rest_value(pos).err)]_vars

\* C24: ["--", "Alice", <not UTF-8>] for `rest: Vec<String>` has returned the
\* error of the third token with Alice already in the collection.
C24_Witness ==
    /\ Returned(<<F_rest>>, <<tok_escape, tok_Alice, tok_bad>>)
    /\ ret = ReturnErr(CliError("ParseStrError", POSITIONAL, tok_bad, "None"))
    /\ posv = <<tok_Alice>>

\* ------------------------------------------------ termination and tokens

\* C25: for every input and every accepted schema the generated parse ends
\* in one of three outcomes, a config, an error value or a process exit
\* through help or version; every step of the loop consumes one token or two;
\* and on a successful parse with a positional field every token of the
\* input has been consumed, each by exactly one step and in exactly one
\* role: the name of a flag, the name of an option, the value of an option,
\* the `--` sentinel or a positional value.
C25_ParseTerminatesAndAccounts ==
    /\ [](/\ ret.kind \in {"Pending", "Ok", "Err", "Exit"}
          /\ pc = "returned" => ret.kind \in {"Ok", "Err"}
          /\ pc = "exited" => ret.kind = "Exit" /\ ret.code = 0
          /\ pc \in {"loop", "rest", "build"} => ret.kind = "Pending"
          /\ pc = "returned" /\ ret.kind = "Ok" /\ is_some(schema.positional)
                 => pos = Len(args) + 1)
    /\ (pc = "loop" ~> pc \in {"returned", "exited"})
    /\ [][(pc \in {"loop", "rest"} /\ pos <= Len(args) =>
              /\ pos' - pos \in {1, 2}
              /\ pos' <= Len(args) + 1
              /\ pc = "rest" \/ arm = "other" =>
                     /\ pos' = pos + 1 /\ flagv' = flagv /\ optv' = optv
                     /\ pc' # "returned" => posv' = Append(posv, rest_value(pos).v)
              /\ pc = "loop" /\ arm = "escape" =>
                     pos' = pos + 1 /\ flagv' = flagv /\ optv' = optv /\ posv' = posv
              /\ pc = "loop" /\ arm = "flag" =>
                     /\ pos' = pos + 1 /\ optv' = optv /\ posv' = posv
                     /\ flagv' = [flagv EXCEPT ![flag_hit] = TRUE]
              /\ pc = "loop" /\ arm = "option" /\ pc' # "returned" =>
                     /\ pos' = pos + 2 /\ flagv' = flagv /\ posv' = posv
                     /\ (\A i \in DOMAIN optv : i # option_hit => optv'[i] = optv[i])
                     /\ optv'[option_hit] =
                            (IF is_some(schema.options[option_hit].default)
                             THEN option_value(schema.options[option_hit],
                                               Some(args[pos + 1]), unwrap(arg_str)).v
                             ELSE Some(option_value(schema.options[option_hit],
                                                    Some(args[pos + 1]), unwrap(arg_str)).v))
              /\ pc = "loop" /\ arm \in {"help", "version"} =>
                     pos' = pos + 1 /\ pc' = "exited")]_vars

\* C25: the parser of examples/full-derive has returned a config for
\* ["-v", "-u", "Alice", "7", "--", "7"]: a flag, an option with its value, a
\* positional value, the sentinel and a positional value after it.
C25_Witness ==
    /\ Returned(FullDeriveArgs, <<tok_v, tok_u, tok_Alice, tok_7, tok_escape, tok_7>>)
    /\ ret = ReturnOk(<<TRUE>>, <<tok_Alice, None, 42>>, <<7, 7>>)
    /\ pos = 7

\* --------------------------------------- help and version out of position

\* The spellings of the two provided flags.
help_spellings == {tok_help, tok_h, tok_version, tok_V}

\* C26: a help or version spelling makes the process exit only when it is
\* reached as a token in matching position: one that directly follows an
\* option name is stored as that option's value, one that follows `--` is
\* stored as a positional value (or ignored when there is no positional
\* field), and one that comes after a token that caused an error is never
\* reached, parse returning that error.
C26_HelpOutOfPositionIsStored ==
    [][(/\ pc' = "exited" => pc = "loop" /\ pos <= Len(args) /\ arm \in {"help", "version"}
        /\ pc = "returned" => pc' # "exited"
        /\ in_loop /\ arm = "option" /\ pos < Len(args) /\ args[pos + 1] \in help_spellings =>
               /\ pc' = "loop" /\ ret' = ret /\ pos' = pos + 2
               /\ optv'[option_hit] =
                      Some(IF schema.options[option_hit].ty_help = "Path"
                           THEN PathBuf_from(args[pos + 1]) ELSE args[pos + 1])
        /\ pc = "rest" /\ pos <= Len(args) /\ args[pos] \in help_spellings =>
               /\ pc' = "rest" /\ ret' = ret
               /\ posv' = Append(posv, IF unwrap(schema.positional).ty_help = "Path"
                                       THEN PathBuf_from(args[pos]) ELSE args[pos])
        /\ in_loop /\ arm = "escape" /\ ~is_some(schema.positional) => pc' = "build"
        /\ pc = "build" => pc' = "returned" /\ ret'.kind # "Exit")]_vars

\* C26: a help or version spelling makes the process exit only when it is
\* reached as a token in matching position.  One that directly follows an
\* option name is taken as that option's value and one that follows `--`
\* with a positional field as a positional value: it is converted like any
\* other value, so it is stored by a string, OsString or path field and
\* answered with ParseIntError by a numeric one.  Without a positional field
\* the tokens after `--` are ignored, and a spelling after a token that
\* caused an error is never reached, parse returning that error.
C26_HelpOutOfPositionIsAValue ==
    [][(/\ pc' = "exited" => pc = "loop" /\ pos <= Len(args) /\ arm \in {"help", "version"}
        /\ pc = "returned" => pc' # "exited"
        /\ in_loop /\ arm = "option" /\ pos < Len(args) /\ args[pos + 1] \in help_spellings =>
               /\ pos' = pos + 2
               /\ IF schema.options[option_hit].ty_help = "Number"
                  THEN /\ pc' = "returned"
                       /\ ret' = ReturnErr(CliError("ParseIntError", unwrap(arg_str),
                                                    args[pos + 1], "InvalidDigit"))
                  ELSE /\ pc' = "loop" /\ ret' = ret
                       /\ optv'[option_hit] =
                              Some(IF schema.options[option_hit].ty_help = "Path"
                                   THEN PathBuf_from(args[pos + 1]) ELSE args[pos + 1])
        /\ pc = "rest" /\ pos <= Len(args) /\ args[pos] \in help_spellings =>
               IF unwrap(schema.positional).ty_help = "Number"
               THEN /\ pc' = "returned" /\ posv' = posv
                    /\ ret' = ReturnErr(CliError("ParseIntError", POSITIONAL,
                                                 args[pos], "InvalidDigit"))
               ELSE /\ pc' = "rest" /\ ret' = ret
                    /\ posv' = Append(posv, IF unwrap(schema.positional).ty_help = "Path"
                                            THEN PathBuf_from(args[pos]) ELSE args[pos])
        /\ in_loop /\ arm = "escape" /\ ~is_some(schema.positional) => pc' = "build"
        /\ pc = "build" => pc' = "returned" /\ ret'.kind # "Exit")]_vars

\* C26: ["--opt-str", "--help"] for `opt_str: Option<String>` has returned a
\* config in which opt_str is the text --help.
C26_Witness ==
    /\ Returned(<<F_opt_str>>, <<tok_opt_str, tok_help>>)
    /\ ret = ReturnOk(<<>>, <<Some(tok_help)>>, <<>>)

\* ------------------------------------------------- the order of errors

\* The places in the struct of the required options that have no value.
missing_fields ==
    {k \in DOMAIN decl :
        \E i \in DOMAIN schema.options :
            /\ schema.options[i].name = decl[k].name
            /\ ~is_some(schema.options[i].default)
            /\ ~schema.options[i].optional
            /\ optv[i] = None}

\* The error of a call that returned one is about the token consumed last:
\* Unknown and the conversion errors hold it as their raw value, and
\* MissingValue names it and comes at the end of the input.
error_is_of_last_token ==
    /\ pos >= 2 /\ pos <= Len(args) + 1
    /\ ret.err.variant = "Unknown" => ret.err.raw = args[pos - 1]
    /\ ret.err.variant = "MissingValue" =>
           pos = Len(args) + 1 /\ ret.err.name = args[pos - 1]
    /\ ret.err.variant \in {"ParseStrError", "ParseIntError"} =>
           /\ ret.err.raw = args[pos - 1]
           /\ ret.err.name = POSITIONAL \/ (pos >= 3 /\ ret.err.name = args[pos - 2])
    /\ ret.err.variant \in {"Unknown", "MissingValue", "ParseStrError", "ParseIntError"}

\* C27: errors are fail-fast and ordered: parse returns the error of the
\* first offending token in input order (Unknown, MissingValue or a
\* conversion error) without examining later tokens, and MissingRequired is
\* returned only after the whole input was scanned without such an error;
\* when several required options are missing, the one declared first in the
\* struct is the one named.
C27_MissingRequiredAfterWholeInput ==
    pc = "returned" /\ ret.kind = "Err" =>
        IF ret.err.variant = "MissingRequired"
        THEN /\ pos = Len(args) + 1
             /\ missing_fields # {}
             /\ ret.err.name =
                    long_spelling(decl[CHOOSE k \in missing_fields :
                                           \A j \in missing_fields : k <= j].name)
        ELSE error_is_of_last_token

\* C27: errors are fail-fast and ordered: parse returns the error of the
\* first offending token in input order without examining later tokens, and
\* MissingRequired is returned only after the scan of the input has ended
\* without such an error: at the end of the input or, without a positional
\* field, at a `--`, the tokens after it never being looked at; when
\* several required options are missing, the one declared first in the
\* struct is the one named.
C27_MissingRequiredAfterScan ==
    pc = "returned" /\ ret.kind = "Err" =>
        IF ret.err.variant = "MissingRequired"
        THEN /\ \/ pos = Len(args) + 1
                \/ /\ ~is_some(schema.positional)
                   /\ pos >= 2 /\ pos <= Len(args)
                   /\ args[pos - 1] = tok_escape
             /\ missing_fields # {}
             /\ ret.err.name =
                    long_spelling(decl[CHOOSE k \in missing_fields :
                                           \A j \in missing_fields : k <= j].name)
        ELSE error_is_of_last_token

\* C27: the struct with `username: String` before `level: u8` has returned
\* MissingRequired for --username on the empty input, both being missing.
C27_Witness ==
    /\ Returned(<<F_username, F_level>>, <<>>)
    /\ missing_fields = {1, 2}
    /\ ret = ReturnErr(CliError("MissingRequired", tok_username, <<>>, "None"))

\* ----------------------------------------------------------- repetition

\* C28: repetition of a scalar argument never accumulates: a scalar option
\* (required, optional or defaulted) that appears several times with valid
\* values holds the value of its last occurrence, and a flag given several
\* times is true exactly as if given once; a flag once set is never reset to
\* false by a later token.
C28_RepetitionNeverAccumulates ==
    /\ [][(pc \in {"loop", "rest", "build"} =>
              /\ \A i \in DOMAIN flagv : flagv[i] => flagv'[i]
              /\ in_loop /\ arm = "flag" /\ flagv[flag_hit] =>
                     flagv' = flagv /\ optv' = optv /\ posv' = posv /\ pc' = pc
              /\ in_loop /\ arm = "option" /\ pc' = "loop" =>
                     \E value \in {option_value(schema.options[option_hit],
                                                Some(args[pos + 1]), unwrap(arg_str)).v} :
                         optv'[option_hit] =
                             (IF is_some(schema.options[option_hit].default)
                              THEN value ELSE Some(value)))]_vars
    /\ [](/\ Returned(<<F_opt_str>>, <<tok_opt_str, tok_Alice, tok_opt_str, tok_Bob>>) =>
                 ret = ReturnOk(<<>>, <<Some(tok_Bob)>>, <<>>)
          /\ Returned(<<F_width>>, <<tok_w, tok_7, tok_w, tok_9>>) =>
                 ret = ReturnOk(<<>>, <<9>>, <<>>)
          /\ Returned(<<F_username>>, <<tok_u, tok_Alice, tok_username, tok_Bob>>) =>
                 ret = ReturnOk(<<>>, <<tok_Bob>>, <<>>)
          /\ Returned(<<F_verbose>>, <<tok_v, tok_v>>) => ret = ReturnOk(<<TRUE>>, <<>>, <<>>)
          /\ Returned(<<F_verbose>>, <<tok_v>>) => ret = ReturnOk(<<TRUE>>, <<>>, <<>>)
          /\ Returned(FullDeriveArgs, <<tok_v, tok_u, tok_Alice, tok_v>>) =>
                 ret = ReturnOk(<<TRUE>>, <<tok_Alice, None, 42>>, <<>>))

\* C28: ["-w", "7", "-w", "9"] for `#[default(42)] width: i32` has returned a
\* config whose width is 9.
C28_Witness ==
    /\ Returned(<<F_width>>, <<tok_w, tok_7, tok_w, tok_9>>)
    /\ ret.kind = "Ok"
    /\ ret.options = <<9>>

\* ------------------------------- the conversions of an Option<OsString>

tok_300 == <<"3", "0", "0">>

\* A panic that ends the call.
Panic(msg) == [Pending EXCEPT !.kind = "Panic", !.printed = msg]

\* args.next().parse_int::<T>(name) or args.next().parse_float::<T>(name) on
\* an iterator that holds one value or none: `args` is that iterator, and
\* `decl` the field of type T the value is for. The values are texts that
\* are and are not numbers, and values that are not UTF-8.
ConvertNext ==
    /\ pc = "source"
    /\ \E ty \in {"i8", "u8", "i16", "u16", "i32", "f32", "f64"},
          a \in {<<>>} \cup
                {<<t>> : t \in Alphabet \cup
                    {tok_7, tok_9, tok_empty, tok_big, tok_300, tok_Bob, tok_slash_a,
                     tok_w, tok_h, <<"1", ".", "5">>, <<"1", "e", "5">>,
                     <<"-", "i", "n", "f">>, <<".">>, <<"-", "7">>, <<"+">>,
                     <<"7", BadByte>>}} :
       \E d \in {<<Field(<<"v", "a", "l", "u", "e">>, ty, <<>>)>>} :
       \E r \in {IF ty \in float_spellings
                 THEN Option_parse_float(a, long_spelling(d[1].name))
                 ELSE Option_parse_int(a, long_spelling(d[1].name), int_type(ty))} :
           /\ decl' = d
           /\ args' = a
           /\ pos' = Len(a) + 1
           /\ ret' = IF r.ok THEN ReturnOk(<<>>, <<r.v>>, <<>>)
                     ELSE IF r.err.variant = "Panic" THEN Panic(r.err.cause)
                     ELSE ReturnErr(r.err)
           /\ pc' = "returned"
    /\ UNCHANGED <<schema, flagv, optv, posv, prev, calls>>

\* The conversions alone, on every value and type in scope.
SpecConvert == Init /\ [][ConvertNext]_vars

\* C29: the self.unwrap() inside Option<OsString>::parse_int and
\* parse_float never panics: it runs only after parse_str succeeded on a
\* clone of the same value, so only when the argument is Some; an absent
\* argument always gives MissingValue and an argument that is not UTF-8
\* always gives ParseStrError, before the unwrap can run.
C29_UnwrapNeverPanics ==
    pc = "returned" =>
        /\ ret.kind \in {"Ok", "Err"}
        /\ args = <<>> =>
               ret = ReturnErr(CliError("MissingValue", long_spelling(decl[1].name),
                                        <<>>, "None"))
        /\ args # <<>> /\ BadByte \in Range(args[1]) =>
               ret = ReturnErr(CliError("ParseStrError", long_spelling(decl[1].name),
                                        args[1], "None"))
        /\ args # <<>> /\ BadByte \notin Range(args[1]) /\ ret.kind = "Err" =>
               /\ ret.err.variant = (IF decl[1].ty \in float_spellings
                                     THEN "ParseFloatError" ELSE "ParseIntError")
               /\ ret.err.raw = args[1]
               /\ ret.err.name = long_spelling(decl[1].name)

\* C29: parse_int::<u8> of Some("300") has returned ParseIntError holding
\* the value that self.unwrap() gave.
C29_Witness ==
    /\ pc = "returned" /\ decl[1].ty = "u8" /\ args = <<tok_300>>
    /\ ret = ReturnErr(CliError("ParseIntError", long_spelling(decl[1].name),
                                tok_300, "PosOverflow"))

\* -------------------------------------------- the value kind of a spelling

\* The spellings in scope that are written Vec<...>.
VecSpellings ==
    {"Vec<String>", "Vec<::std::path::PathBuf>", "Vec<std::path::PathBuf>",
     "Vec<path::PathBuf>", "Vec<PathBuf>", "Vec<::std::ffi::OsString>",
     "Vec<std::ffi::OsString>", "Vec<ffi::OsString>", "Vec<OsString>", "Vec<f32>",
     "Vec<f64>", "Vec<i8>", "Vec<i16>", "Vec<i32>", "Vec<i64>", "Vec<i128>",
     "Vec<isize>", "Vec<u8>", "Vec<u16>", "Vec<u32>", "Vec<u64>", "Vec<u128>",
     "Vec<usize>", "Vec<Option<u8>>", "Vec<Vec<u8>>", "Vec<bool>"}

\* The tables of ArgOption::parse, by the value kind they stand for.
KindTables ==
    {<<"Path", optional_paths \cup required_paths \cup positional_paths>>,
     <<"OsString", optional_os_strings \cup required_os_strings \cup positional_os_strings>>,
     <<"String", {"String", "Vec<String>", "Option<String>"}>>,
     <<"Number", optional_numbers \cup required_numbers \cup positional_numbers>>}

\* C30: in ArgOption::parse the unreachable!() branch is never taken: every
\* type spelling that the optional/required classification accepts belongs
\* to exactly one value kind (Path, OsString, String or Number), and it is
\* marked positional exactly when it is a Vec<...> spelling, in which case
\* it is also marked optional.
C30_UnreachableIsNeverTaken ==
    pc # "source" /\ decl[1].ty # "bool" /\ classify_optional(decl[1].ty) # "error" =>
        /\ schema.ok
        /\ Len(schema.options) + Len(schema.positional) = 1
        /\ \E a \in {IF is_some(schema.positional)
                     THEN unwrap(schema.positional) ELSE schema.options[1]} :
               /\ a.ty = decl[1].ty
               /\ a.ty_help # "unreachable"
               /\ Cardinality({t \in KindTables : a.ty \in t[2]}) = 1
               /\ \E t \in KindTables : a.ty \in t[2] /\ a.ty_help = t[1]
               /\ a.positional <=> a.ty \in VecSpellings
               /\ a.positional <=> is_some(schema.positional)
               /\ a.positional => a.optional

\* C30: a field of type Vec<u16> has been classified: a Number, positional
\* and optional.
C30_Witness ==
    /\ pc = "ready" /\ decl[1].ty = "Vec<u16>"
    /\ schema.positional[1].ty_help = "Number"
    /\ schema.positional[1].positional /\ schema.positional[1].optional

====
